---- MODULE Spec2Model ----
(***************************************************************************)
(* Verification model of the child-safety video analysis server:           *)
(* motion grouping into analysis windows (motion_grouper.py), frame        *)
(* sampling (frame_sampler.py) and the background analysis run (app.py).   *)
(*                                                                         *)
(* Time is counted in ticks of 1/TicksPerSecond seconds, so that every     *)
(* quantity the code computes as a float (0.1 s per motion event, i/8 s    *)
(* and i/16 s sampling instants, 0.3 s gap) is an integer here.            *)
(***************************************************************************)
EXTENDS Integers, Sequences, FiniteSets, TLC

\* ------------------------------------------------------------------------
\* Units and configuration (config.py)
\* ------------------------------------------------------------------------
TicksPerSecond == 80

FRAMES_PER_SECOND == 8
ANALYSIS_WINDOW_SECONDS == 2
MINIMUM_MOTION_DENSITY == 125          \* 0.125, in thousandths
HIGH_MOTION_THRESHOLD == 12            \* events per second
HIGH_MOTION_SPLIT_WINDOW_SIZE == 1     \* seconds
HIGH_MOTION_SPLIT_FPS == 16
MOTION_GAP_THRESHOLD == (3 * TicksPerSecond) \div 10   \* 0.3 s
EventTicks == TicksPerSecond \div 10                   \* 0.1 s per motion event

Min(a, b) == IF a <= b THEN a ELSE b
Max(a, b) == IF a >= b THEN a ELSE b

\* sorted(motion_timestamps)
Sorted(s) == SortSeq(s, LAMBDA a, b : a < b)

\* variant: membership closed at the start and open at the end
CountInHalfOpen(motion_timestamps, lo, hi) ==
    Cardinality({i \in 1..Len(motion_timestamps) :
                    lo <= motion_timestamps[i] /\ motion_timestamps[i] < hi})

\* len([t for t in motion_timestamps if lo <= t <= hi])
CountIn(motion_timestamps, lo, hi) ==
    Cardinality({i \in 1..Len(motion_timestamps) :
                    lo <= motion_timestamps[i] /\ motion_timestamps[i] <= hi})

\* f"{t:.2f}s": a time rendered in hundredths of a second
Centis(t) == (t * 100 + TicksPerSecond \div 2) \div TicksPerSecond

\* ------------------------------------------------------------------------
\* MotionGrouper
\* ------------------------------------------------------------------------
window_ticks == ANALYSIS_WINDOW_SECONDS * TicksPerSecond
split_window_ticks == HIGH_MOTION_SPLIT_WINDOW_SIZE * TicksPerSecond

\* min(motion_count * 0.1, span), in ticks
EstimatedMotionDuration(motion_count, span) == Min(motion_count * EventTicks, span)

\* estimated_motion_duration / span, in thousandths
MotionDensity(motion_count, span) ==
    (EstimatedMotionDuration(motion_count, span) * 1000) \div span

\* motion_count / span-in-seconds, in thousandths of an event per second
MotionIntensity(motion_count, span) == (motion_count * TicksPerSecond * 1000) \div span

\* variant: the density gate with a strict comparison
DensityAdmitsStrict(motion_count, min_motion_density) ==
    EstimatedMotionDuration(motion_count, window_ticks) * 1000
        > min_motion_density * window_ticks

\* motion_density >= self.min_motion_density
DensityAdmits(motion_count, min_motion_density) ==
    EstimatedMotionDuration(motion_count, window_ticks) * 1000
        >= min_motion_density * window_ticks

\* variant: the split test with a strict comparison
IntensitySplitsStrict(motion_count) ==
    motion_count * TicksPerSecond > HIGH_MOTION_THRESHOLD * window_ticks

\* motion_intensity >= self.high_motion_threshold
IntensitySplits(motion_count) ==
    motion_count * TicksPerSecond >= HIGH_MOTION_THRESHOLD * window_ticks

\* one sub-window of _create_split_windows (the body of its for loop)
SplitWindow(window_start, window_end, motion_timestamps, i) ==
    LET sub_start == window_start + i * split_window_ticks
        sub_end == Min(sub_start + split_window_ticks, window_end)
        sub_motion_count == CountIn(motion_timestamps, sub_start, sub_end)
    IN [start_time |-> sub_start,
        end_time |-> sub_end,
        motion_density |-> MotionDensity(sub_motion_count, split_window_ticks),
        motion_duration |-> EstimatedMotionDuration(sub_motion_count, split_window_ticks),
        motion_count |-> sub_motion_count,
        motion_intensity |-> MotionIntensity(sub_motion_count, split_window_ticks),
        is_split_window |-> TRUE,
        sampling_fps |-> HIGH_MOTION_SPLIT_FPS,
        parent_window |-> <<Centis(window_start), Centis(window_end)>>]

\* variant: sub-windows without motion are not emitted
CreateSplitWindowsDensityChecked(window_start, window_end, motion_timestamps) ==
    LET num_splits == (window_end - window_start) \div split_window_ticks
        all == [i \in 1..num_splits |->
                    SplitWindow(window_start, window_end, motion_timestamps, i - 1)]
    IN SelectSeq(all, LAMBDA w : w.motion_count > 0)

\* _create_split_windows
CreateSplitWindows(window_start, window_end, motion_timestamps) ==
    LET total_duration == window_end - window_start
        num_splits == total_duration \div split_window_ticks
    IN [i \in 1..num_splits |->
            SplitWindow(window_start, window_end, motion_timestamps, i - 1)]

\* variant: a normal window that ends one split length after its start
NormalWindowEndingAtSplit(window_start, window_end, motion_count) ==
    [start_time |-> window_start,
     end_time |-> window_start + split_window_ticks,
     motion_density |-> MotionDensity(motion_count, window_ticks),
     motion_duration |-> EstimatedMotionDuration(motion_count, window_ticks),
     motion_count |-> motion_count,
     motion_intensity |-> MotionIntensity(motion_count, window_ticks),
     is_split_window |-> FALSE,
     sampling_fps |-> FRAMES_PER_SECOND]

\* the normal window appended by create_analysis_windows
NormalWindow(window_start, window_end, motion_count) ==
    [start_time |-> window_start,
     end_time |-> window_end,
     motion_density |-> MotionDensity(motion_count, window_ticks),
     motion_duration |-> EstimatedMotionDuration(motion_count, window_ticks),
     motion_count |-> motion_count,
     motion_intensity |-> MotionIntensity(motion_count, window_ticks),
     is_split_window |-> FALSE,
     sampling_fps |-> FRAMES_PER_SECOND]

\* what one iteration of the tiling loop adds to analysis_windows
CandidateOutput(window_start, motion_timestamps, min_motion_density) ==
    LET window_end == window_start + window_ticks
        motion_count == CountIn(motion_timestamps, window_start, window_end)
    IN IF DensityAdmits(motion_count, min_motion_density)
       THEN IF IntensitySplits(motion_count)
            THEN CreateSplitWindows(window_start, window_end, motion_timestamps)
            ELSE <<NormalWindow(window_start, window_end, motion_count)>>
       ELSE <<>>

\* variant: the loop runs while any video is left
TilingContinuesWhileVideoLeft(processed_time, video_duration) ==
    processed_time < video_duration

\* while processed_time + self.window_seconds <= video_duration
TilingContinues(processed_time, video_duration) ==
    processed_time + window_ticks <= video_duration

\* variant: the loop advances by the split window size
AdvanceProcessedTimeBySplitSize(processed_time) == processed_time + split_window_ticks

\* processed_time += self.window_seconds
AdvanceProcessedTime(processed_time) == processed_time + window_ticks

RECURSIVE TileWindows(_, _, _, _, _)
TileWindows(processed_time, video_duration, motion_timestamps, min_motion_density, analysis_windows) ==
    IF TilingContinues(processed_time, video_duration)
    THEN TileWindows(AdvanceProcessedTime(processed_time), video_duration, motion_timestamps,
                     min_motion_density,
                     analysis_windows \o CandidateOutput(processed_time, motion_timestamps,
                                                         min_motion_density))
    ELSE analysis_windows

\* group_motion_timestamps: the loop over timestamps[1:]
RECURSIVE GroupFrom(_, _, _, _, _)
GroupFrom(timestamps, k, current_segment_start, current_segment_end, segments) ==
    IF k > Len(timestamps)
    THEN Append(segments, <<current_segment_start, current_segment_end>>)
    ELSE IF timestamps[k] - current_segment_end <= MOTION_GAP_THRESHOLD
         THEN GroupFrom(timestamps, k + 1, current_segment_start, timestamps[k], segments)
         ELSE GroupFrom(timestamps, k + 1, timestamps[k], timestamps[k],
                        Append(segments, <<current_segment_start, current_segment_end>>))

GroupMotionTimestamps(motion_timestamps) ==
    IF motion_timestamps = <<>>
    THEN <<>>
    ELSE LET timestamps == Sorted(motion_timestamps)
         IN GroupFrom(timestamps, 2, timestamps[1], timestamps[1], <<>>)

\* self.min_motion_seconds = window_seconds * min_motion_density, compared with a
\* segment duration: segment_duration < self.min_motion_seconds
SegmentTooShort(segment_duration, min_motion_density) ==
    segment_duration * 1000 < window_ticks * min_motion_density

\* the inner while loop of _create_windows_from_segments
SegmentTilingContinues(window_start, segment_end, video_duration) ==
    /\ window_start + window_ticks <= segment_end
    /\ window_start + window_ticks <= video_duration

RECURSIVE SegmentWindows(_, _, _, _)
SegmentWindows(window_start, segment_end, video_duration, segment_id) ==
    IF SegmentTilingContinues(window_start, segment_end, video_duration)
    THEN <<[start_time |-> window_start,
            end_time |-> window_start + window_ticks,
            segment_id |-> segment_id,
            motion_density |-> 1000,
            motion_duration |-> window_ticks]>>
         \o SegmentWindows(window_start + window_ticks, segment_end, video_duration,
                           segment_id)
    ELSE <<>>

RECURSIVE CreateWindowsFromSegments(_, _, _, _)
CreateWindowsFromSegments(motion_segments, video_duration, min_motion_density, i) ==
    IF i > Len(motion_segments)
    THEN <<>>
    ELSE LET segment_start == motion_segments[i][1]
             segment_end == motion_segments[i][2]
             here == IF SegmentTooShort(segment_end - segment_start, min_motion_density)
                     THEN <<>>
                     ELSE SegmentWindows(segment_start, segment_end, video_duration, i)
         IN here \o CreateWindowsFromSegments(motion_segments, video_duration,
                                              min_motion_density, i + 1)

\* create_analysis_windows; timestamps_given is "motion_timestamps is not None"
CreateAnalysisWindows(motion_segments, video_duration, motion_timestamps, timestamps_given, min_motion_density) ==
    IF ~timestamps_given
    THEN CreateWindowsFromSegments(motion_segments, video_duration, min_motion_density, 1)
    ELSE TileWindows(0, video_duration, Sorted(motion_timestamps), min_motion_density, <<>>)

\* ------------------------------------------------------------------------
\* FrameSampler
\* ------------------------------------------------------------------------
default_frames_per_second == FRAMES_PER_SECOND

\* variant: every window sampled at the default rate
SamplingFpsAlwaysDefault(window) == default_frames_per_second

\* window.get('sampling_fps', self.default_frames_per_second)
SamplingFps(window) ==
    IF "sampling_fps" \in DOMAIN window
    THEN window.sampling_fps
    ELSE default_frames_per_second

\* frames_per_window = int(sampling_fps * window_duration)
FramesPerWindow(sampling_fps, window_duration) ==
    (sampling_fps * window_duration) \div TicksPerSecond

\* variant: the duration test looks at the window's start
EndsBeyondVideoByStart(sequence_start, sequence_end, fps, frame_count) ==
    sequence_start * fps > frame_count * TicksPerSecond

\* sequence_end > video_duration, with video_duration = total_frames / video_fps
EndsBeyondVideo(sequence_start, sequence_end, fps, frame_count) ==
    sequence_end * fps > frame_count * TicksPerSecond

\* variant: sampling instants counted from 1
FrameTimestampFromOne(sequence_start, i, sampling_fps) ==
    sequence_start + ((i + 1) * TicksPerSecond) \div sampling_fps

\* timestamp = sequence_start + (i / sampling_fps)
FrameTimestamp(sequence_start, i, sampling_fps) ==
    sequence_start + (i * TicksPerSecond) \div sampling_fps

\* frame_number = int(timestamp * video_fps)
SourceFrameNumber(timestamp, fps) == (timestamp * fps) \div TicksPerSecond

\* min_required_frames = max(8, int(frames_per_window * 0.9))
MinRequiredFrames(frames_per_window) == Max(8, (frames_per_window * 9) \div 10)

\* the loop "for i in range(frames_per_window)": frames decoded, seeks made, and
\* how the loop ended
RECURSIVE ReadFrames(_, _, _, _, _, _, _)
ReadFrames(window, fps, frame_count, bad_frames, frames_per_window, i, acc) ==
    IF i >= frames_per_window
    THEN [acc EXCEPT !.exit = "exhausted"]
    ELSE LET timestamp == FrameTimestamp(window.start_time, i, SamplingFps(window))
             frame_number == SourceFrameNumber(timestamp, fps)
         IN IF timestamp > window.end_time
            THEN [acc EXCEPT !.exit = "past_end"]
            ELSE IF frame_number >= frame_count
            THEN [acc EXCEPT !.exit = "past_frames"]
            ELSE ReadFrames(window, fps, frame_count, bad_frames, frames_per_window, i + 1,
                    [acc EXCEPT
                        !.requested = Append(@, <<timestamp, frame_number>>),
                        !.frames = IF frame_number \in bad_frames
                                   THEN @
                                   ELSE Append(@, [frame |-> frame_number,
                                                   timestamp |-> timestamp,
                                                   frame_number |-> i])])

\* the frame_sequence dictionary built for an accepted window
FrameSequence(window, frames) ==
    [start_time |-> window.start_time,
     end_time |-> window.end_time,
     frames |-> frames,
     sampling_fps |-> SamplingFps(window),
     is_split_window |-> IF "is_split_window" \in DOMAIN window
                         THEN window.is_split_window ELSE FALSE,
     motion_intensity |-> IF "motion_intensity" \in DOMAIN window
                          THEN window.motion_intensity ELSE 0,
     parent_window |-> IF "parent_window" \in DOMAIN window
                       THEN window.parent_window ELSE <<>>]

\* one iteration of "for idx, window in enumerate(analysis_windows)"
SampleWindow(window, fps, frame_count, bad_frames) ==
    LET frames_per_window ==
            FramesPerWindow(SamplingFps(window), window.end_time - window.start_time)
    IN IF EndsBeyondVideo(window.start_time, window.end_time, fps, frame_count)
       THEN [class |-> "duration", frames |-> <<>>, requested |-> <<>>, exit |-> "skipped"]
       ELSE LET r == ReadFrames(window, fps, frame_count, bad_frames, frames_per_window, 0,
                                [frames |-> <<>>, requested |-> <<>>, exit |-> "running"])
            IN [class |-> IF Len(r.frames) >= MinRequiredFrames(frames_per_window)
                          THEN "accepted" ELSE "frames",
                frames |-> r.frames, requested |-> r.requested, exit |-> r.exit]

\* ------------------------------------------------------------------------
\* State
\* ------------------------------------------------------------------------
VARIABLES
    scenario,             \* which entry point this behaviour exercises
    motion_timestamps,    \* list handed to / produced for the grouper
    video_duration,       \* seconds of video, in ticks
    min_motion_density,   \* MotionGrouper.min_motion_density, in thousandths
    gr_pc,                \* position of the grouper call
    motion_segments,      \* list returned by group_motion_timestamps
    analysis_windows,     \* list returned by create_analysis_windows
    video_fps,            \* cap.get(CAP_PROP_FPS)
    total_frames,         \* cap.get(CAP_PROP_FRAME_COUNT)
    unreadable,           \* source frames for which cap.read() returns ret = False
    fs_pc,                \* position of extract_frame_sequences
    idx,                  \* windows of analysis_windows already handled
    frame_sequences,      \* list returned by extract_frame_sequences
    windows_processed,
    windows_skipped_duration,
    windows_skipped_frames,
    fs_trace,             \* per handled window: class, seeks made, loop exit
    video_opens,          \* whether cv2.VideoCapture can open the file
    stream_end,           \* frames a sequential cap.read() delivers before ret = False
    motion_frames,        \* frames for which MotionDetector.detect_motion is true
    run_pc,               \* position of process_video_analysis
    detection,            \* outcome of the analyze_video_for_motion call
    job_status,           \* job.status
    job_progress,         \* job.progress
    job_result,           \* job.result
    job_error,            \* job.error
    seq_i,                \* sequences of frame_sequences already analysed
    incidents,            \* formatter.results['incidents']
    seq_outcomes,         \* per analysed sequence: how its loop iteration went
    exc,                  \* the exception on its way to the outer except clause
    sequence_a,           \* frames_data of the call an enhancer served before
    sequence_b,           \* frames_data of the call under study
    motion_history,       \* MotionEnhancer.motion_history, per enhancer
    enhanced_frames,      \* what enhance_frame_sequence returned for sequence_b
    en_calls,             \* calls of enhance_frame_sequence made, per enhancer
    rectangles_in,        \* list handed to _merge_overlapping_rectangles
    merged_rectangles,    \* list it returned
    merge_pc,             \* position of that call
    context_history,      \* ContextManager.context_history
    cm_call,              \* the last ContextManager call and its arguments
    cm_appended,          \* texts and ranges handed to add_scene_context since the last clear
    cm_prompt,            \* what the last get_context_prompt_addition returned
    cm_calls,             \* calls made on the ContextManager
    thread_sequences,     \* per job thread: its frame_sequences
    threads,              \* per job thread: position, loop index, composite_path, compositor, results
    output_files,         \* the files under OUTPUT_DIR: path -> image last saved there
    judging,              \* the analysis loop of one run, step by step: position, context log, prompts, events
    status_poll           \* a /status request for the job: position, what it read, what it answered

grouper_vars == <<motion_timestamps, video_duration, min_motion_density, gr_pc, motion_segments>>
video_vars == <<video_fps, total_frames, unreadable>>
sampler_vars == <<fs_pc, idx, frame_sequences, windows_processed, windows_skipped_duration, windows_skipped_frames, fs_trace>>
source_vars == <<video_opens, stream_end, motion_frames>>
job_vars == <<job_status, job_progress, job_result, job_error>>
run_vars == <<run_pc, detection, seq_i, incidents, seq_outcomes, exc>>
enhancer_vars == <<sequence_a, sequence_b, motion_history, enhanced_frames, en_calls>>
merge_vars == <<rectangles_in, merged_rectangles, merge_pc>>
context_vars == <<context_history, cm_call, cm_appended, cm_prompt, cm_calls>>
thread_vars == <<thread_sequences, threads, output_files>>
component_vars == <<enhancer_vars, merge_vars, context_vars, thread_vars, judging, status_poll>>
pipeline_vars == <<grouper_vars, analysis_windows, video_vars, sampler_vars, source_vars, job_vars, run_vars>>
vars == <<scenario, component_vars, grouper_vars, analysis_windows, video_vars, sampler_vars, source_vars, job_vars, run_vars>>

\* Python's None
None == [none |-> TRUE]
IsNone(x) == "none" \in DOMAIN x

Enhancers == {"used", "fresh"}

EnhancerIdle ==
    /\ sequence_a = <<>>
    /\ sequence_b = <<>>
    /\ motion_history = [e \in Enhancers |-> <<>>]
    /\ enhanced_frames = [e \in Enhancers |-> <<>>]
    /\ en_calls = [e \in Enhancers |-> 0]

MergeIdle ==
    /\ rectangles_in = <<>>
    /\ merged_rectangles = <<>>
    /\ merge_pc = "idle"

ContextIdle ==
    /\ context_history = <<>>
    /\ cm_call = [op |-> "init"]
    /\ cm_appended = <<>>
    /\ cm_prompt = <<>>
    /\ cm_calls = 0

ThreadsIdle ==
    /\ thread_sequences = <<>>
    /\ threads = <<>>
    /\ output_files = <<>>

JudgingIdle == judging = [pc |-> "idle"]

StatusIdle == status_poll = [pc |-> "idle", polls |-> 0]

ComponentIdle ==
    /\ EnhancerIdle
    /\ MergeIdle
    /\ ContextIdle
    /\ ThreadsIdle
    /\ JudgingIdle
    /\ StatusIdle

RunIdle ==
    /\ video_opens = TRUE
    /\ stream_end = 0
    /\ motion_frames = {}
    /\ run_pc = "idle"
    /\ detection = "pending"
    /\ job_status = "pending"
    /\ job_progress = 0
    /\ job_result = None
    /\ job_error = None
    /\ seq_i = 0
    /\ incidents = <<>>
    /\ seq_outcomes = <<>>
    /\ exc = "none"

GrouperIdle ==
    /\ motion_timestamps = <<>>
    /\ video_duration = 0
    /\ min_motion_density = MINIMUM_MOTION_DENSITY
    /\ gr_pc = "idle"
    /\ motion_segments = <<>>

VideoIdle ==
    /\ video_fps = 0
    /\ total_frames = 0
    /\ unreadable = {}

SamplerIdle ==
    /\ fs_pc = "idle"
    /\ idx = 0
    /\ frame_sequences = <<>>
    /\ windows_processed = 0
    /\ windows_skipped_duration = 0
    /\ windows_skipped_frames = 0
    /\ fs_trace = <<>>

\* ------------------------------------------------------------------------
\* Inputs of the grouper
\* ------------------------------------------------------------------------
MaxSlot == 5          \* motion instants lie on whole seconds 0..MaxSlot
MaxActive == 2        \* instants that carry motion events
MaxSmallCount == 3    \* events per instant: 1..MaxSmallCount, or a burst

HighCount == HIGH_MOTION_THRESHOLD * ANALYSIS_WINDOW_SECONDS
EventCounts == (1..MaxSmallCount) \cup {HighCount - 1, HighCount}
Slots == 0..MaxSlot
Durations == {k * (TicksPerSecond \div 2) : k \in 0..(2 * MaxSlot + 3)}
MinDensities == {MINIMUM_MOTION_DENSITY, 150}

Repeat(x, n) == [i \in 1..n |-> x]

\* the ascending timestamp list with cnt[k] events at second k
RECURSIVE EventList(_, _)
EventList(cnt, k) ==
    IF k > MaxSlot
    THEN <<>>
    ELSE Repeat(k * TicksPerSecond, cnt[k]) \o EventList(cnt, k + 1)

Reverse(s) == [i \in 1..Len(s) |-> s[Len(s) + 1 - i]]

EventPlacements ==
    {cnt \in [Slots -> {0} \cup EventCounts] :
        Cardinality({k \in Slots : cnt[k] > 0}) <= MaxActive}

\* n motion instants from `first`, `step` apart (motion on consecutive frames)
MaxRun == 18
RunSteps == {MOTION_GAP_THRESHOLD - 4, MOTION_GAP_THRESHOLD, MOTION_GAP_THRESHOLD + 1}
RunStarts == {0, TicksPerSecond \div 2}
RunList(first, step, n) == [i \in 1..n |-> first + (i - 1) * step]

TimestampLists ==
    {EventList(cnt, 0) : cnt \in EventPlacements}
        \cup {RunList(first, step, n) : first \in RunStarts, step \in RunSteps, n \in 1..MaxRun}
        \cup {Reverse(RunList(first, step, n)) :
                    first \in RunStarts, step \in RunSteps, n \in 1..MaxRun}

InitGrouper ==
    /\ scenario = "grouper"
    /\ ComponentIdle
    /\ motion_timestamps \in TimestampLists
    /\ video_duration \in Durations
    /\ min_motion_density \in MinDensities
    /\ gr_pc = "ready"
    /\ motion_segments = <<>>
    /\ analysis_windows = <<>>
    /\ VideoIdle
    /\ SamplerIdle
    /\ RunIdle

\* grouper.create_analysis_windows(segments, video_duration, motion_timestamps)
CallCreateAnalysisWindows ==
    /\ scenario = "grouper"
    /\ gr_pc = "ready"
    /\ motion_segments' = GroupMotionTimestamps(motion_timestamps)
    /\ analysis_windows' =
            CreateAnalysisWindows(motion_segments', video_duration,
                                  motion_timestamps, TRUE, min_motion_density)
    /\ gr_pc' = "timestamps"
    /\ UNCHANGED <<scenario, component_vars, motion_timestamps, video_duration, min_motion_density>>
    /\ UNCHANGED <<video_vars, sampler_vars, source_vars, job_vars, run_vars>>

\* grouper.create_analysis_windows(segments, video_duration)
CallCreateAnalysisWindowsFallback ==
    /\ scenario = "grouper"
    /\ gr_pc = "ready"
    /\ motion_segments' = GroupMotionTimestamps(motion_timestamps)
    /\ analysis_windows' =
            CreateAnalysisWindows(motion_segments', video_duration,
                                  <<>>, FALSE, min_motion_density)
    /\ gr_pc' = "segments"
    /\ UNCHANGED <<scenario, component_vars, motion_timestamps, video_duration, min_motion_density>>
    /\ UNCHANGED <<video_vars, sampler_vars, source_vars, job_vars, run_vars>>

NextGrouper == CallCreateAnalysisWindows \/ CallCreateAnalysisWindowsFallback

SpecGrouper == InitGrouper /\ [][NextGrouper]_vars

\* ------------------------------------------------------------------------
\* Inputs of the frame sampler
\* ------------------------------------------------------------------------
MaxWindows == 3       \* windows handed to one extract_frame_sequences call
MaxBadFirst == 3      \* first source frame of the unreadable stretch
MaxBadLen == 3        \* length of the unreadable stretch

VideoFpsChoices == {10, 25}
VideoHalfSeconds == {5, 8}
Videos ==
    {<<fps, (fps * h) \div 2>> : fps \in VideoFpsChoices, h \in VideoHalfSeconds}
BadStretches ==
    {{}} \cup {first..(first + len - 1) : first \in 0..MaxBadFirst, len \in 1..MaxBadLen}

\* windows as the grouper builds them: normal, split sub-windows, segment windows
WindowPool ==
    {NormalWindow(window_ticks, 2 * window_ticks, 3)}
        \cup {SplitWindow(0, window_ticks, <<>>, i) : i \in {0, 1}}
        \cup {SegmentWindows(TicksPerSecond \div 2, TicksPerSecond \div 2 + window_ticks, 2 * window_ticks, 1)[1]}

RECURSIVE WindowLists(_)
WindowLists(n) ==
    IF n = 0
    THEN {<<>>}
    ELSE LET shorter == WindowLists(n - 1)
         IN shorter \cup {Append(l, w) : l \in {x \in shorter : Len(x) = n - 1}, w \in WindowPool}

\* sampler = FrameSampler(); cap = cv2.VideoCapture(video_path)
InitSampler ==
    /\ scenario = "sampler"
    /\ ComponentIdle
    /\ GrouperIdle
    /\ analysis_windows \in WindowLists(MaxWindows)
    /\ \E v \in Videos : video_fps = v[1] /\ total_frames = v[2]
    /\ unreadable \in BadStretches
    /\ fs_pc = "loop"
    /\ idx = 0
    /\ frame_sequences = <<>>
    /\ windows_processed = 0
    /\ windows_skipped_duration = 0
    /\ windows_skipped_frames = 0
    /\ fs_trace = <<>>
    /\ RunIdle

\* one iteration of the loop over analysis_windows
ProcessWindow ==
    /\ fs_pc = "loop"
    /\ idx < Len(analysis_windows)
    /\ \E window \in {analysis_windows[idx + 1]} :
       \E r \in {SampleWindow(window, video_fps, total_frames, unreadable)} :
          /\ frame_sequences' = IF r.class = "accepted"
                                THEN Append(frame_sequences, FrameSequence(window, r.frames))
                                ELSE frame_sequences
          /\ windows_processed' = windows_processed + (IF r.class = "accepted" THEN 1 ELSE 0)
          /\ windows_skipped_duration' =
                windows_skipped_duration + (IF r.class = "duration" THEN 1 ELSE 0)
          /\ windows_skipped_frames' =
                windows_skipped_frames + (IF r.class = "frames" THEN 1 ELSE 0)
          /\ fs_trace' = Append(fs_trace, [window |-> idx + 1, class |-> r.class,
                                           requested |-> r.requested, exit |-> r.exit,
                                           decoded |-> Len(r.frames)])
    /\ idx' = idx + 1
    /\ UNCHANGED <<scenario, component_vars, grouper_vars, analysis_windows, video_vars, fs_pc>>
    /\ UNCHANGED <<source_vars, job_vars, run_vars>>

\* cap.release(); return frame_sequences
FinishSampling ==
    /\ fs_pc = "loop"
    /\ idx = Len(analysis_windows)
    /\ fs_pc' = "done"
    /\ UNCHANGED <<scenario, component_vars, grouper_vars, analysis_windows, video_vars, idx, frame_sequences, windows_processed, windows_skipped_duration, windows_skipped_frames, fs_trace>>
    /\ UNCHANGED <<source_vars, job_vars, run_vars>>

NextSampler == ProcessWindow \/ FinishSampling

SpecSampler == InitSampler /\ [][NextSampler]_vars

\* ------------------------------------------------------------------------
\* analyze_video_for_motion (motion_detector.py)
\* ------------------------------------------------------------------------
\* timestamp = frame_count / fps
MotionTimestamp(frame_count, fps) == (frame_count * TicksPerSecond) \div fps

\* the read loop: frames 0 .. limit-1 are delivered, motion frames are recorded
RECURSIVE MotionPeriods(_, _, _, _)
MotionPeriods(frame_count, limit, fps, moving) ==
    IF frame_count >= limit
    THEN <<>>
    ELSE (IF frame_count \in moving THEN <<MotionTimestamp(frame_count, fps)>> ELSE <<>>)
            \o MotionPeriods(frame_count + 1, limit, fps, moving)

AnalyzeVideoForMotion(opens, fps, frames_delivered, moving) ==
    IF opens THEN MotionPeriods(0, frames_delivered, fps, moving) ELSE <<>>

\* ------------------------------------------------------------------------
\* process_video_analysis (app.py)
\* ------------------------------------------------------------------------
\* variant: the run goes on to grouping whatever the detector returned
HasMotionAlways(timestamps) == TRUE

\* "if not motion_timestamps: ... return", negated
HasMotion(timestamps) == timestamps # <<>>

\* the result stored when a stage leaves nothing to analyse
EmptyResult(message) ==
    [violence_detected |-> FALSE, message |-> message, incidents |-> <<>>]

\* variant: the share of the sequences done, without the 65 already reached
SequenceProgressOfLoopOnly(i, total_sequences) == (30 * (i + 1)) \div total_sequences

\* progress = 65 + (30 * (i + 1) / total_sequences); int(progress)
SequenceProgress(i, total_sequences) == (65 * total_sequences + 30 * (i + 1)) \div total_sequences

\* inputs of a run: the uploaded file
RunFpsChoices == {10, 20}
MotionStretches ==
    {{}} \cup {first..(first + len - 1) : first \in {1, 25}, len \in {2, 3, 30}}

InitRun ==
    /\ scenario = "run"
    /\ ComponentIdle
    /\ GrouperIdle
    /\ analysis_windows = <<>>
    /\ SamplerIdle
    /\ video_opens \in BOOLEAN
    /\ IF video_opens
       THEN /\ video_fps \in RunFpsChoices
            /\ \E h \in VideoHalfSeconds : total_frames = (video_fps * h) \div 2
            /\ stream_end \in {total_frames, total_frames \div 2}
            /\ \E m \in MotionStretches : motion_frames = m \cap (1..(total_frames - 1))
            /\ unreadable \in BadStretches
       ELSE /\ video_fps = 0
            /\ total_frames = 0
            /\ stream_end = 0
            /\ motion_frames = {}
            /\ unreadable = {}
    /\ run_pc = "pending"
    /\ detection = "pending"
    /\ job_status = "pending"
    /\ job_progress = 0
    /\ job_result = None
    /\ job_error = None
    /\ seq_i = 0
    /\ incidents = <<>>
    /\ seq_outcomes = <<>>
    /\ exc = "none"

\* job.status = 'processing'; job.update_progress(5, ...)
StartProcessing ==
    /\ run_pc = "pending"
    /\ job_status' = "processing"
    /\ job_progress' = 5
    /\ run_pc' = "detect"
    /\ UNCHANGED <<scenario, component_vars, grouper_vars, analysis_windows, video_vars, sampler_vars, source_vars, job_result, job_error, detection, seq_i, incidents, seq_outcomes, exc>>

\* motion_timestamps, fps = analyze_video_for_motion(...); update_progress(25, ...)
DetectMotion ==
    /\ run_pc = "detect"
    /\ motion_timestamps' = AnalyzeVideoForMotion(video_opens, video_fps, stream_end, motion_frames)
    /\ detection' = "returned"
    /\ job_progress' = 25
    /\ run_pc' = IF HasMotion(motion_timestamps') THEN "group" ELSE "no_motion"
    /\ UNCHANGED <<scenario, component_vars, video_duration, min_motion_density, gr_pc, motion_segments, analysis_windows, video_vars, sampler_vars, source_vars, job_status, job_result, job_error, seq_i, incidents, seq_outcomes, exc>>

\* analyze_video_for_motion raises on a frame it cannot process
DetectMotionRaises ==
    /\ run_pc = "detect"
    /\ video_opens
    /\ detection' = "raised"
    /\ exc' = "detect_motion"
    /\ run_pc' = "except"
    /\ UNCHANGED <<scenario, component_vars, grouper_vars, analysis_windows, video_vars, sampler_vars, source_vars, job_vars, seq_i, incidents, seq_outcomes>>

\* job.status = 'completed' on one of the three early returns and at the end
SetCompleted ==
    /\ run_pc \in {"no_motion", "no_windows", "no_sequences", "complete"}
    /\ job_status' = "completed"
    /\ run_pc' = CASE run_pc = "no_motion" -> "no_motion_result"
                   [] run_pc = "no_windows" -> "no_windows_result"
                   [] run_pc = "no_sequences" -> "no_sequences_result"
                   [] OTHER -> "store_result"
    /\ UNCHANGED <<scenario, component_vars, grouper_vars, analysis_windows, video_vars, sampler_vars, source_vars, job_progress, job_result, job_error, detection, seq_i, incidents, seq_outcomes, exc>>

\* job.result = {...}; return
StoreEmptyResult ==
    /\ run_pc \in {"no_motion_result", "no_windows_result", "no_sequences_result"}
    /\ job_result' = CASE run_pc = "no_motion_result" -> EmptyResult("No motion detected in video")
                       [] run_pc = "no_windows_result" -> EmptyResult("No valid analysis windows found")
                       [] OTHER -> EmptyResult("No valid frame sequences found")
    /\ run_pc' = "done"
    /\ UNCHANGED <<scenario, component_vars, grouper_vars, analysis_windows, video_vars, sampler_vars, source_vars, job_status, job_progress, job_error, detection, seq_i, incidents, seq_outcomes, exc>>

\* update_progress(35); video_duration = total_frames / video_fps;
\* grouper.create_analysis_windows(...); update_progress(45) when there are windows
GroupMotion ==
    /\ run_pc = "group"
    /\ IF video_fps = 0
       THEN /\ run_pc' = "except"
            /\ exc' = "float division by zero"
            /\ job_progress' = 35
            /\ UNCHANGED <<video_duration, gr_pc, motion_segments, analysis_windows>>
       ELSE /\ video_duration' = (total_frames * TicksPerSecond) \div video_fps
            /\ motion_segments' = GroupMotionTimestamps(motion_timestamps)
            /\ analysis_windows' =
                    CreateAnalysisWindows(motion_segments',
                                          video_duration', motion_timestamps, TRUE,
                                          min_motion_density)
            /\ gr_pc' = "timestamps"
            /\ job_progress' = IF analysis_windows' = <<>> THEN 35 ELSE 45
            /\ run_pc' = IF analysis_windows' = <<>> THEN "no_windows" ELSE "sample"
            /\ UNCHANGED exc
    /\ UNCHANGED <<scenario, component_vars, motion_timestamps, min_motion_density, video_vars, sampler_vars, source_vars, job_status, job_result, job_error, detection, seq_i, incidents, seq_outcomes>>

\* update_progress(55); sampler = FrameSampler(); the call starts
StartSampling ==
    /\ run_pc = "sample"
    /\ fs_pc = "idle"
    /\ fs_pc' = "loop"
    /\ job_progress' = 55
    /\ UNCHANGED <<scenario, component_vars, grouper_vars, analysis_windows, video_vars, idx, frame_sequences, windows_processed, windows_skipped_duration, windows_skipped_frames, fs_trace, source_vars, job_status, job_result, job_error, run_vars>>

\* frame_sequences returned; update_progress(65) and the setup of step 4 when
\* there are sequences
AfterSampling ==
    /\ run_pc = "sample"
    /\ fs_pc = "done"
    /\ job_progress' = IF frame_sequences = <<>> THEN 55 ELSE 65
    /\ run_pc' = IF frame_sequences = <<>> THEN "no_sequences" ELSE "analyze"
    /\ UNCHANGED <<scenario, component_vars, grouper_vars, analysis_windows, video_vars, sampler_vars, source_vars, job_status, job_result, job_error, detection, seq_i, incidents, seq_outcomes, exc>>

\* ChatGPTAnalyzer.analyze_composite_image: the judge's answer, or the answer the
\* analyzer makes up in its own "except Exception" when the call fails
JudgeOutcomes == {"ok", "judge_failed"}

\* one iteration of the loop over frame_sequences that reaches
\* formatter.add_analysis_result
AnalyzeSequence ==
    /\ run_pc = "analyze"
    /\ seq_i < Len(frame_sequences)
    /\ job_progress' = SequenceProgress(seq_i, Len(frame_sequences))
    /\ \E outcome \in JudgeOutcomes :
          /\ incidents' = Append(incidents,
                                 [start_seconds |-> frame_sequences[seq_i + 1].start_time,
                                  end_seconds |-> frame_sequences[seq_i + 1].end_time,
                                  frames_analyzed |-> Len(frame_sequences[seq_i + 1].frames),
                                  inappropriate_behavior_detected |-> FALSE,
                                  api_error |-> (outcome = "judge_failed")])
          /\ seq_outcomes' = Append(seq_outcomes, outcome)
    /\ seq_i' = seq_i + 1
    /\ UNCHANGED <<scenario, component_vars, grouper_vars, analysis_windows, video_vars, sampler_vars, source_vars, job_status, job_result, job_error, run_pc, detection, exc>>

\* one iteration that raises inside the try: "except Exception: continue"
AnalyzeSequenceFails ==
    /\ run_pc = "analyze"
    /\ seq_i < Len(frame_sequences)
    /\ job_progress' = SequenceProgress(seq_i, Len(frame_sequences))
    /\ seq_outcomes' = Append(seq_outcomes, "raised")
    /\ seq_i' = seq_i + 1
    /\ UNCHANGED <<scenario, component_vars, grouper_vars, analysis_windows, video_vars, sampler_vars, source_vars, job_status, job_result, job_error, run_pc, detection, incidents, exc>>

\* update_progress(95); copy the composite images; update_progress(100)
FinishAnalysis ==
    /\ run_pc = "analyze"
    /\ seq_i = Len(frame_sequences)
    /\ job_progress' = 100
    /\ run_pc' = "complete"
    /\ UNCHANGED <<scenario, component_vars, grouper_vars, analysis_windows, video_vars, sampler_vars, source_vars, job_status, job_result, job_error, detection, seq_i, incidents, seq_outcomes, exc>>

\* shutil.copy2 raises while the images are copied
FinishAnalysisRaises ==
    /\ run_pc = "analyze"
    /\ seq_i = Len(frame_sequences)
    /\ incidents # <<>>
    /\ job_progress' = 95
    /\ exc' = "copy2"
    /\ run_pc' = "except"
    /\ UNCHANGED <<scenario, component_vars, grouper_vars, analysis_windows, video_vars, sampler_vars, source_vars, job_status, job_result, job_error, detection, seq_i, incidents, seq_outcomes>>

\* job.result = results_data
StoreResult ==
    /\ run_pc = "store_result"
    /\ job_result' = [incidents |-> incidents]
    /\ run_pc' = "done"
    /\ UNCHANGED <<scenario, component_vars, grouper_vars, analysis_windows, video_vars, sampler_vars, source_vars, job_status, job_progress, job_error, detection, seq_i, incidents, seq_outcomes, exc>>

\* except Exception as e: job.status = 'error'; job.error = str(e)
HandleException ==
    /\ run_pc = "except"
    /\ job_status' = "error"
    /\ job_error' = [message |-> exc]
    /\ run_pc' = "done"
    /\ UNCHANGED <<scenario, component_vars, grouper_vars, analysis_windows, video_vars, sampler_vars, source_vars, job_progress, job_result, detection, seq_i, incidents, seq_outcomes, exc>>

NextRun ==
    \/ StartProcessing
    \/ DetectMotion
    \/ DetectMotionRaises
    \/ SetCompleted
    \/ StoreEmptyResult
    \/ GroupMotion
    \/ StartSampling
    \/ ProcessWindow
    \/ FinishSampling
    \/ AfterSampling
    \/ AnalyzeSequence
    \/ AnalyzeSequenceFails
    \/ FinishAnalysis
    \/ FinishAnalysisRaises
    \/ StoreResult
    \/ HandleException

SpecRun == InitRun /\ [][NextRun]_vars

\* ------------------------------------------------------------------------
\* A run and the /status requests made while it runs (app.py, get_status);
\* the request is served by another thread than the run's
\* ------------------------------------------------------------------------
MaxPolls == 1

\* response = {'status': job.status, 'progress': job.progress, ...}
GetStatusRead ==
    /\ scenario = "run"
    /\ status_poll.pc \in {"idle", "sent"}
    /\ status_poll.polls < MaxPolls
    /\ status_poll' = [pc |-> "read", polls |-> status_poll.polls + 1,
                       status |-> job_status, progress |-> job_progress]
    /\ UNCHANGED <<scenario, enhancer_vars, merge_vars, context_vars, thread_vars, judging, pipeline_vars>>

\* "if job.status == 'completed' and job.result: ... elif job.status == 'error'
\* and job.error: ..."; return jsonify(response)
GetStatusRespond ==
    /\ scenario = "run"
    /\ status_poll.pc = "read"
    /\ status_poll' = [pc |-> "sent", polls |-> status_poll.polls,
                       status |-> status_poll.status, progress |-> status_poll.progress,
                       result |-> IF job_status = "completed" /\ ~IsNone(job_result)
                                  THEN job_result ELSE None,
                       error |-> IF ~(job_status = "completed" /\ ~IsNone(job_result))
                                    /\ job_status = "error" /\ ~IsNone(job_error)
                                 THEN job_error ELSE None]
    /\ UNCHANGED <<scenario, enhancer_vars, merge_vars, context_vars, thread_vars, judging, pipeline_vars>>

NextStatus == NextRun \/ GetStatusRead \/ GetStatusRespond

SpecStatus == InitRun /\ [][NextStatus]_vars

\* the grouper called on its own and inside a run
InitPipeline == InitGrouper \/ InitRun
NextPipeline ==
    \/ CallCreateAnalysisWindows
    \/ CallCreateAnalysisWindowsFallback
    \/ NextRun

SpecPipeline == InitPipeline /\ [][NextPipeline]_vars

\* ------------------------------------------------------------------------
\* MotionEnhancer (motion_enhancer.py)
\*
\* A frame is a row of MaxPixel pixels.  An entry of frames_data is None or
\* [timestamp, motion], where motion is the size-filtered mask the code
\* computes from the difference of this frame and the one before it
\* (absdiff, threshold, morphology, contours of at least the minimum area).
\* ------------------------------------------------------------------------
MOTION_PERSISTENCE_FRAMES == 2
persistence_frames == MOTION_PERSISTENCE_FRAMES

MaxPixel == 3
Pixels == 1..MaxPixel

\* variant: boxes that share an edge count as overlapping
RectanglesOverlapOrTouch(rect1, rect2) ==
    ~ (\/ rect1[3] < rect2[1]
       \/ rect2[3] < rect1[1]
       \/ rect1[4] < rect2[2]
       \/ rect2[4] < rect1[2])

\* _rectangles_overlap, rectangles as <<x1, y1, x2, y2>>
RectanglesOverlap(rect1, rect2) ==
    ~ (\/ rect1[3] <= rect2[1]
       \/ rect2[3] <= rect1[1]
       \/ rect1[4] <= rect2[2]
       \/ rect2[4] <= rect1[2])

\* overlaps[i]: the indices appended by the double loop, in ascending order
OverlapList(rectangles, i) ==
    SelectSeq([j \in 1..Len(rectangles) |-> j],
              LAMBDA j : j # i /\ (IF i < j THEN RectanglesOverlap(rectangles[i], rectangles[j])
                                            ELSE RectanglesOverlap(rectangles[j], rectangles[i])))

\* variant: a search that collects the start box and the boxes overlapping it,
\* without following their overlaps in turn
RECURSIVE ComponentFromNeighboursOnly(_, _, _, _)
ComponentFromNeighboursOnly(rectangles, stack, visited, component) ==
    IF stack = <<>>
    THEN [component |-> component, visited |-> visited]
    ELSE LET current == stack[Len(stack)]
             rest == SubSeq(stack, 1, Len(stack) - 1)
         IN IF current \in visited
            THEN ComponentFromNeighboursOnly(rectangles, rest, visited, component)
            ELSE LET seen == visited \cup {current}
                     pushed == IF component = <<>>
                               THEN SelectSeq(OverlapList(rectangles, current), LAMBDA nb : nb \notin seen)
                               ELSE <<>>
                 IN ComponentFromNeighboursOnly(rectangles, rest \o pushed, seen,
                                                Append(component, current))

\* the depth-first search "while stack:" of one component
RECURSIVE ComponentFrom(_, _, _, _)
ComponentFrom(rectangles, stack, visited, component) ==
    IF stack = <<>>
    THEN [component |-> component, visited |-> visited]
    ELSE LET current == stack[Len(stack)]
             rest == SubSeq(stack, 1, Len(stack) - 1)
         IN IF current \in visited
            THEN ComponentFrom(rectangles, rest, visited, component)
            ELSE LET seen == visited \cup {current}
                     pushed == SelectSeq(OverlapList(rectangles, current), LAMBDA nb : nb \notin seen)
                 IN ComponentFrom(rectangles, rest \o pushed, seen, Append(component, current))

\* the bounding box of one component
ComponentBox(rectangles, component) ==
    LET members == {component[k] : k \in DOMAIN component}
    IN <<CHOOSE v \in {rectangles[m][1] : m \in members} : \A m \in members : v <= rectangles[m][1],
         CHOOSE v \in {rectangles[m][2] : m \in members} : \A m \in members : v <= rectangles[m][2],
         CHOOSE v \in {rectangles[m][3] : m \in members} : \A m \in members : v >= rectangles[m][3],
         CHOOSE v \in {rectangles[m][4] : m \in members} : \A m \in members : v >= rectangles[m][4]>>

\* "for i in range(n): if not visited[i]: ..."
RECURSIVE MergeFrom(_, _, _, _)
MergeFrom(rectangles, i, visited, merged) ==
    IF i > Len(rectangles)
    THEN merged
    ELSE IF i \in visited
         THEN MergeFrom(rectangles, i + 1, visited, merged)
         ELSE LET c == ComponentFrom(rectangles, <<i>>, visited, <<>>)
              IN MergeFrom(rectangles, i + 1, c.visited,
                           Append(merged, ComponentBox(rectangles, c.component)))

\* _merge_overlapping_rectangles
MergeOverlappingRectangles(rectangles) ==
    IF rectangles = <<>>
    THEN <<>>
    ELSE IF Len(rectangles) = 1
         THEN rectangles
         ELSE MergeFrom(rectangles, 1, {}, <<>>)

\* the size-filtered mask of frame i (0-based, i >= 1): when frames_data[i-1] is
\* None the frame is compared with itself and nothing differs
FilteredMotionMask(frames_data, i) ==
    IF IsNone(frames_data[i]) THEN {} ELSE frames_data[i + 1].motion

\* cv2.findContours on the filtered mask: its maximal runs of pixels, left to right
FilteredContours(mask) ==
    LET starts == {a \in mask : (a - 1) \notin mask}
        StartAt(k) == CHOOSE a \in starts : Cardinality({b \in starts : b < a}) = k - 1
        RunFrom(a) == {p \in mask : p >= a /\ \A q \in a..p : q \in mask}
    IN [k \in 1..Cardinality(starts) |-> RunFrom(StartAt(k))]

\* cv2.boundingRect, stored as [x, y, x + w, y + h]; pixel p covers [p-1, p] x [0, 1]
BoundingRect(contour) ==
    LET lo == CHOOSE p \in contour : \A q \in contour : p <= q
    IN <<lo - 1, 0, lo - 1 + Cardinality(contour), 1>>

\* recent_masks = self.motion_history[-(persistence_frames-1):] + [motion_mask]
RecentMasks(motion_mask, history) ==
    SubSeq(history, Len(history) - (persistence_frames - 1) + 1, Len(history))
        \o <<[mask |-> motion_mask]>>

\* bitwise_and over the recent masks, starting from all ones
RECURSIVE AndMasks(_, _)
AndMasks(masks, k) ==
    IF k > Len(masks) THEN Pixels ELSE masks[k].mask \cap AndMasks(masks, k + 1)

\* _apply_persistence_filter: None or [mask |-> pixels]
ApplyPersistenceFilter(motion_mask, frame_index, history) ==
    IF frame_index < persistence_frames
    THEN [mask |-> motion_mask]
    ELSE IF Len(history) < persistence_frames
         THEN [mask |-> motion_mask]
         ELSE LET recent_masks == RecentMasks(motion_mask, history)
              IN IF \E k \in DOMAIN recent_masks : IsNone(recent_masks[k])
                 THEN None
                 ELSE LET persistent_mask == AndMasks(recent_masks, 1)
                      IN IF persistent_mask # {} THEN [mask |-> persistent_mask] ELSE None

\* variant: only a contour lying wholly inside the persistent mask gets a rectangle
EnhanceSingleFrameFilteredContained(filtered_motion_mask, frame_index, history) ==
    LET persistent_motion_mask == ApplyPersistenceFilter(filtered_motion_mask, frame_index, history)
    IN IF IsNone(persistent_motion_mask) \/ persistent_motion_mask.mask = {}
       THEN [motion_mask |-> None, rectangles |-> <<>>]
       ELSE LET filtered_contours_persistent ==
                    SelectSeq(FilteredContours(filtered_motion_mask),
                              LAMBDA c : c \subseteq persistent_motion_mask.mask)
                rectangles == [k \in DOMAIN filtered_contours_persistent |->
                                    BoundingRect(filtered_contours_persistent[k])]
            IN [motion_mask |-> persistent_motion_mask,
                rectangles |-> MergeOverlappingRectangles(rectangles)]

\* _enhance_single_frame_filtered: the mask handed back (None when nothing
\* persists) and the rectangles drawn on the frame
EnhanceSingleFrameFiltered(filtered_motion_mask, frame_index, history) ==
    LET persistent_motion_mask == ApplyPersistenceFilter(filtered_motion_mask, frame_index, history)
    IN IF IsNone(persistent_motion_mask) \/ persistent_motion_mask.mask = {}
       THEN [motion_mask |-> None, rectangles |-> <<>>]
       ELSE LET filtered_contours_persistent ==
                    SelectSeq(FilteredContours(filtered_motion_mask),
                              LAMBDA c : c \cap persistent_motion_mask.mask # {})
                rectangles == [k \in DOMAIN filtered_contours_persistent |->
                                    BoundingRect(filtered_contours_persistent[k])]
            IN [motion_mask |-> persistent_motion_mask,
                rectangles |-> MergeOverlappingRectangles(rectangles)]

\* a frame handed back as it came in: no 'motion_enhanced' key, nothing drawn
Untouched(frame_data) ==
    IF IsNone(frame_data)
    THEN None
    ELSE [timestamp |-> frame_data.timestamp, motion_enhanced |-> FALSE, rectangles |-> <<>>]

\* variant: the history keeps each frame's size-filtered mask, not what the
\* persistence filter made of it
RECURSIVE EnhanceFramesRawHistory(_, _, _, _)
EnhanceFramesRawHistory(frames_data, i, history, enhanced) ==
    IF i >= Len(frames_data)
    THEN [enhanced_frames |-> enhanced, motion_history |-> history]
    ELSE IF IsNone(frames_data[i + 1])
         THEN EnhanceFramesRawHistory(frames_data, i + 1, Append(history, None), Append(enhanced, None))
         ELSE LET r == EnhanceSingleFrameFiltered(FilteredMotionMask(frames_data, i), i, history)
              IN EnhanceFramesRawHistory(frames_data, i + 1,
                                         Append(history, [mask |-> FilteredMotionMask(frames_data, i)]),
                                         Append(enhanced,
                                                [timestamp |-> frames_data[i + 1].timestamp,
                                                 motion_enhanced |-> ~IsNone(r.motion_mask),
                                                 rectangles |-> r.rectangles]))

\* the loop "for i in range(1, len(frames_data))"
RECURSIVE EnhanceFrames(_, _, _, _)
EnhanceFrames(frames_data, i, history, enhanced) ==
    IF i >= Len(frames_data)
    THEN [enhanced_frames |-> enhanced, motion_history |-> history]
    ELSE IF IsNone(frames_data[i + 1])
         THEN EnhanceFrames(frames_data, i + 1, Append(history, None), Append(enhanced, None))
         ELSE LET r == EnhanceSingleFrameFiltered(FilteredMotionMask(frames_data, i), i, history)
              IN EnhanceFrames(frames_data, i + 1, Append(history, r.motion_mask),
                               Append(enhanced,
                                      [timestamp |-> frames_data[i + 1].timestamp,
                                       motion_enhanced |-> ~IsNone(r.motion_mask),
                                       rectangles |-> r.rectangles]))

\* variant: an enhancer that never resets its history and filters every frame
\* against whatever the history holds
RECURSIVE EnhanceFramesCarried(_, _, _, _)
EnhanceFramesCarried(frames_data, i, history, enhanced) ==
    IF i >= Len(frames_data)
    THEN [enhanced_frames |-> enhanced, motion_history |-> history]
    ELSE IF IsNone(frames_data[i + 1])
         THEN EnhanceFramesCarried(frames_data, i + 1, Append(history, None), Append(enhanced, None))
         ELSE LET r == EnhanceSingleFrameFiltered(FilteredMotionMask(frames_data, i),
                                                  persistence_frames + Len(history), history)
              IN EnhanceFramesCarried(frames_data, i + 1, Append(history, r.motion_mask),
                                      Append(enhanced,
                                             [timestamp |-> frames_data[i + 1].timestamp,
                                              motion_enhanced |-> ~IsNone(r.motion_mask),
                                              rectangles |-> r.rectangles]))

EnhanceFrameSequenceCarried(frames_data, history) ==
    IF Len(frames_data) < 2
    THEN [enhanced_frames |-> [k \in DOMAIN frames_data |-> Untouched(frames_data[k])],
          motion_history |-> history]
    ELSE EnhanceFramesCarried(frames_data, 1, history, <<Untouched(frames_data[1])>>)

\* enhance_frame_sequence (enhancement enabled): what it returns and the history
\* it leaves in the enhancer
EnhanceFrameSequence(frames_data, history) ==
    IF Len(frames_data) < 2
    THEN [enhanced_frames |-> [k \in DOMAIN frames_data |-> Untouched(frames_data[k])],
          motion_history |-> history]
    ELSE EnhanceFrames(frames_data, 1, <<None>>, <<Untouched(frames_data[1])>>)

\* inputs of the enhancer: frame sequences of up to MaxFrames frames
MaxFrames == 4

FrameChoices(k) ==
    {None} \cup {[timestamp |-> k, motion |-> m] : m \in SUBSET Pixels}

RECURSIVE FrameLists(_)
FrameLists(n) ==
    IF n = 0
    THEN {<<>>}
    ELSE IF n = 1
         THEN {<<>>, <<[timestamp |-> 0, motion |-> {}]>>}
         ELSE LET shorter == FrameLists(n - 1)
              IN shorter \cup {Append(l, f) : l \in {x \in shorter : Len(x) = n - 1},
                                              f \in FrameChoices(n - 1)}

\* the enhancer "used" has served sequence_a before it is handed sequence_b; the
\* enhancer "fresh" is handed sequence_b right after construction
CallsOf(e) == IF e = "used" THEN 2 ELSE 1

InitEnhancer ==
    /\ scenario = "enhancer"
    /\ StatusIdle
    /\ JudgingIdle
    /\ ThreadsIdle
    /\ MergeIdle
    /\ ContextIdle
    /\ sequence_a \in {l \in FrameLists(2) : Len(l) = 2}
    /\ sequence_b \in FrameLists(MaxFrames)
    /\ motion_history = [e \in Enhancers |-> <<>>]
    /\ enhanced_frames = [e \in Enhancers |-> <<>>]
    /\ en_calls = [e \in Enhancers |-> 0]
    /\ GrouperIdle
    /\ analysis_windows = <<>>
    /\ VideoIdle
    /\ SamplerIdle
    /\ RunIdle

\* enhanced_frames_data = self.motion_enhancer.enhance_frame_sequence(frames_data)
EnhanceFrameSequenceCall(e) ==
    /\ scenario = "enhancer"
    /\ en_calls[e] < CallsOf(e)
    /\ \E frames_data \in {IF e = "used" /\ en_calls[e] = 0 THEN sequence_a ELSE sequence_b} :
       \E r \in {EnhanceFrameSequence(frames_data, motion_history[e])} :
          /\ motion_history' = [motion_history EXCEPT ![e] = r.motion_history]
          /\ enhanced_frames' = [enhanced_frames EXCEPT ![e] = r.enhanced_frames]
    /\ en_calls' = [en_calls EXCEPT ![e] = @ + 1]
    /\ UNCHANGED <<scenario, sequence_a, sequence_b, merge_vars, context_vars, thread_vars, judging, status_poll, pipeline_vars>>

EnhanceWithUsed == EnhanceFrameSequenceCall("used")
EnhanceWithFresh == EnhanceFrameSequenceCall("fresh")

NextEnhancer == EnhanceWithUsed \/ EnhanceWithFresh

SpecEnhancer == InitEnhancer /\ [][NextEnhancer]_vars

\* inputs of the rectangle merge: up to MaxBoxes boxes of positive area with
\* corners on a small grid
MaxBoxes == 3
BoxColumns == 0..2
BoxRows == 0..2
Boxes ==
    {<<x1, y1, x2, y2>> : x1 \in BoxColumns, y1 \in BoxRows, x2 \in BoxColumns, y2 \in BoxRows}
        \cap {b \in Seq(Nat) : Len(b) = 4 /\ b[1] < b[3] /\ b[2] < b[4]}

RECURSIVE BoxLists(_)
BoxLists(n) ==
    IF n = 0
    THEN {<<>>}
    ELSE LET shorter == BoxLists(n - 1)
         IN shorter \cup {Append(l, b) : l \in {x \in shorter : Len(x) = n - 1}, b \in Boxes}

InitMerge ==
    /\ scenario = "merge"
    /\ StatusIdle
    /\ JudgingIdle
    /\ ThreadsIdle
    /\ EnhancerIdle
    /\ ContextIdle
    /\ rectangles_in \in BoxLists(MaxBoxes)
    /\ merged_rectangles = <<>>
    /\ merge_pc = "ready"
    /\ GrouperIdle
    /\ analysis_windows = <<>>
    /\ VideoIdle
    /\ SamplerIdle
    /\ RunIdle

\* merged_rectangles = self._merge_overlapping_rectangles(rectangles)
MergeRectanglesCall ==
    /\ scenario = "merge"
    /\ merge_pc = "ready"
    /\ merged_rectangles' = MergeOverlappingRectangles(rectangles_in)
    /\ merge_pc' = "done"
    /\ UNCHANGED <<scenario, rectangles_in, enhancer_vars, context_vars, thread_vars, judging, status_poll, pipeline_vars>>

NextMerge == MergeRectanglesCall

SpecMerge == InitMerge /\ [][NextMerge]_vars

\* ------------------------------------------------------------------------
\* ContextManager (context_manager.py)
\*
\* A text is None or [chars |-> sequence of characters].  A prompt is a
\* sequence of lines; the empty string is the empty sequence.
\* ------------------------------------------------------------------------
max_context_length == 3

Whitespace == {" ", "\n"}

\* str.strip()
RECURSIVE LStrip(_)
LStrip(chars) ==
    IF chars # <<>> /\ chars[1] \in Whitespace THEN LStrip(Tail(chars)) ELSE chars
RECURSIVE RStrip(_)
RStrip(chars) ==
    IF chars # <<>> /\ chars[Len(chars)] \in Whitespace
    THEN RStrip(SubSeq(chars, 1, Len(chars) - 1))
    ELSE chars
Strip(chars) == RStrip(LStrip(chars))

\* variant: the guard "if scene_context:" without the strip() test
IsStorableUnstripped(scene_context) ==
    ~IsNone(scene_context) /\ scene_context.chars # <<>>

\* "if scene_context and scene_context.strip():"
IsStorable(scene_context) ==
    /\ ~IsNone(scene_context)
    /\ scene_context.chars # <<>>
    /\ Strip(scene_context.chars) # <<>>

\* variant: the oldest entries are kept
KeepOldest(history) ==
    IF Len(history) > max_context_length THEN SubSeq(history, 1, max_context_length) ELSE history

\* "if len(...) > max_context_length: context_history = context_history[-max_context_length:]"
KeepMostRecent(history) ==
    IF Len(history) > max_context_length
    THEN SubSeq(history, Len(history) - max_context_length + 1, Len(history))
    ELSE history

\* add_scene_context: the context_history it leaves
AddSceneContext(history, scene_context, timestamp_range) ==
    IF IsStorable(scene_context)
    THEN KeepMostRecent(Append(history,
                               [context |-> Strip(scene_context.chars),
                                timestamp_range |-> timestamp_range,
                                sequence_number |-> Len(history) + 1]))
    ELSE history

\* f"{x:.1f}" of a time in ticks, as a number of tenths of a second
OneDecimal(t) == (t * 10 + TicksPerSecond \div 2) \div TicksPerSecond

ContextLine(entry) ==
    [line |-> "entry",
     sequence_number |-> entry.sequence_number,
     start |-> OneDecimal(entry.timestamp_range.start),
     end |-> OneDecimal(entry.timestamp_range.end),
     context |-> entry.context]

\* variant: only the latest entry is listed
GetContextPromptAdditionLatestOnly(history) ==
    IF history = <<>>
    THEN <<>>
    ELSE <<[line |-> "PREVIOUS SCENE CONTEXT (for continuity):"],
           ContextLine(history[Len(history)]),
           [line |-> "Use this context"]>>

\* get_context_prompt_addition
GetContextPromptAddition(history) ==
    IF history = <<>>
    THEN <<>>
    ELSE <<[line |-> "PREVIOUS SCENE CONTEXT (for continuity):"]>>
            \o [k \in DOMAIN history |-> ContextLine(history[k])]
            \o <<[line |-> "Use this context"]>>

\* inputs: the texts a caller hands over, and the time range of the k-th call
MaxContextCalls == 5
SceneTexts ==
    {None} \cup {[chars |-> c] : c \in {<<>>, <<" ">>, <<"\n", " ">>, <<"a">>, <<" ", "b">>, <<"c", "\n">>}}
RangeOfCall(k) ==
    [start |-> k * window_ticks, end |-> (k + 1) * window_ticks]

InitContext ==
    /\ scenario = "context"
    /\ StatusIdle
    /\ JudgingIdle
    /\ ThreadsIdle
    /\ EnhancerIdle
    /\ MergeIdle
    /\ context_history = <<>>
    /\ cm_call = [op |-> "init"]
    /\ cm_appended = <<>>
    /\ cm_prompt = <<>>
    /\ cm_calls = 0
    /\ GrouperIdle
    /\ analysis_windows = <<>>
    /\ VideoIdle
    /\ SamplerIdle
    /\ RunIdle

\* self.context_manager.add_scene_context(scene_context, timestamp_range)
AddSceneContextCall ==
    /\ scenario = "context"
    /\ cm_calls < MaxContextCalls
    /\ \E scene_context \in SceneTexts :
          /\ context_history' = AddSceneContext(context_history, scene_context, RangeOfCall(cm_calls))
          /\ cm_call' = [op |-> "add", scene_context |-> scene_context,
                         timestamp_range |-> RangeOfCall(cm_calls)]
          /\ cm_appended' = Append(cm_appended, [scene_context |-> scene_context,
                                                 timestamp_range |-> RangeOfCall(cm_calls)])
    /\ cm_calls' = cm_calls + 1
    /\ UNCHANGED <<scenario, cm_prompt, enhancer_vars, merge_vars, thread_vars, judging, status_poll, pipeline_vars>>

\* self.context_manager.clear_context()
ClearContextCall ==
    /\ scenario = "context"
    /\ cm_calls < MaxContextCalls
    /\ context_history' = <<>>
    /\ cm_call' = [op |-> "clear"]
    /\ cm_appended' = <<>>
    /\ cm_calls' = cm_calls + 1
    /\ UNCHANGED <<scenario, cm_prompt, enhancer_vars, merge_vars, thread_vars, judging, status_poll, pipeline_vars>>

\* context_addition = self.context_manager.get_context_prompt_addition()
GetContextPromptAdditionCall ==
    /\ scenario = "context"
    /\ cm_calls < MaxContextCalls
    /\ cm_prompt' = GetContextPromptAddition(context_history)
    /\ cm_call' = [op |-> "get"]
    /\ cm_calls' = cm_calls + 1
    /\ UNCHANGED <<scenario, context_history, cm_appended, enhancer_vars, merge_vars, thread_vars, judging, status_poll, pipeline_vars>>

NextContext == AddSceneContextCall \/ ClearContextCall \/ GetContextPromptAdditionCall

SpecContext == InitContext /\ [][NextContext]_vars

\* ------------------------------------------------------------------------
\* Two uploads analysed at once (app.py: one thread per job)
\*
\* Each thread builds its own ImageCompositor (with its MotionEnhancer and
\* ContextManager), ChatGPTAnalyzer and ResultFormatter; the directory
\* OUTPUT_DIR and the files in it belong to the process.
\* ------------------------------------------------------------------------
JobIds == {1, 2}
MaxThreadSequences == 2

\* filename = f"composite_{start_time:.2f}s_to_{end_time:.2f}s{motion_suffix}.jpg"
CompositePath(frame_sequence) ==
    [start |-> Centis(frame_sequence.start_time), end |-> Centis(frame_sequence.end_time),
     split |-> frame_sequence.is_split_window]

\* the k-th two-second window of a video, as an accepted frame sequence
ThreadWindow(k) == NormalWindow(k * window_ticks, (k + 1) * window_ticks, 3)

\* frame_sequences of a job: some of the first MaxThreadSequences windows, ascending
ThreadSequenceLists ==
    {SelectSeq([k \in 1..MaxThreadSequences |-> ThreadWindow(k - 1)],
               LAMBDA w : w.start_time \in {k * window_ticks : k \in chosen}) :
        chosen \in (SUBSET (0..(MaxThreadSequences - 1))) \ {{}}}

OutputPaths == {CompositePath(ThreadWindow(k)) : k \in 0..(MaxThreadSequences - 1)}

InitThreads ==
    /\ scenario = "threads"
    /\ StatusIdle
    /\ JudgingIdle
    /\ EnhancerIdle
    /\ MergeIdle
    /\ ContextIdle
    /\ thread_sequences \in [JobIds -> ThreadSequenceLists]
    /\ threads = [j \in JobIds |->
                    [pc |-> "pending", i |-> 0, composite_path |-> None,
                     context_history |-> <<>>, sent |-> <<>>, incidents |-> <<>>,
                     web_images |-> <<>>]]
    /\ output_files = [p \in OutputPaths |-> None]
    /\ GrouperIdle
    /\ analysis_windows = <<>>
    /\ VideoIdle
    /\ SamplerIdle
    /\ RunIdle

\* thread.start(); compositor = ImageCompositor(); compositor.clear_context_history()
StartThread ==
    /\ scenario = "threads"
    /\ \E j \in JobIds :
          /\ threads[j].pc = "pending"
          /\ threads' = [threads EXCEPT ![j].pc = "render", ![j].context_history = <<>>]
    /\ UNCHANGED <<scenario, thread_sequences, output_files, enhancer_vars, merge_vars, context_vars, judging, status_poll, pipeline_vars>>

\* composite_path = compositor.create_composite(sequence): the image rendered from
\* this job's frames is saved under a name made of the window's times
CreateComposite ==
    /\ scenario = "threads"
    /\ \E j \in JobIds :
          /\ threads[j].pc = "render"
          /\ \E path \in {CompositePath(thread_sequences[j][threads[j].i + 1])} :
                /\ output_files' = [output_files EXCEPT ![path] = [job |-> j, window |-> threads[j].i + 1]]
                /\ threads' = [threads EXCEPT ![j].composite_path = path, ![j].pc = "send"]
    /\ UNCHANGED <<scenario, thread_sequences, enhancer_vars, merge_vars, context_vars, judging, status_poll, pipeline_vars>>

\* analyzer.analyze_composite_image(composite_path, prompt) encodes the file at
\* composite_path; process_analysis_response stores the scene it describes;
\* formatter.add_analysis_result records composite_path
AnalyzeCompositeImage ==
    /\ scenario = "threads"
    /\ \E j \in JobIds :
          /\ threads[j].pc = "send"
          /\ \E image \in {output_files[threads[j].composite_path]} :
                threads' = [threads EXCEPT
                    ![j].sent = Append(@, [window |-> threads[j].i + 1, image |-> image]),
                    ![j].context_history =
                        KeepMostRecent(Append(@, [window |-> threads[j].i + 1, scene_of |-> image])),
                    ![j].incidents = Append(@, [window |-> threads[j].i + 1,
                                                composite_image_path |-> threads[j].composite_path]),
                    ![j].i = @ + 1,
                    ![j].pc = IF threads[j].i + 1 = Len(thread_sequences[j]) THEN "copy" ELSE "render"]
    /\ UNCHANGED <<scenario, thread_sequences, output_files, enhancer_vars, merge_vars, context_vars, judging, status_poll, pipeline_vars>>

\* shutil.copy2(original_path, web_path) for every incident; status 'completed'
CopyCompositeImages ==
    /\ scenario = "threads"
    /\ \E j \in JobIds :
          /\ threads[j].pc = "copy"
          /\ threads' = [threads EXCEPT
                ![j].web_images = [k \in DOMAIN threads[j].incidents |->
                                        [window |-> threads[j].incidents[k].window,
                                         image |-> output_files[threads[j].incidents[k].composite_image_path]]],
                ![j].pc = "done"]
    /\ UNCHANGED <<scenario, thread_sequences, output_files, enhancer_vars, merge_vars, context_vars, judging, status_poll, pipeline_vars>>

NextThreads == StartThread \/ CreateComposite \/ AnalyzeCompositeImage \/ CopyCompositeImages

SpecThreads == InitThreads /\ [][NextThreads]_vars

\* ------------------------------------------------------------------------
\* The analysis loop of one run, step by step (app.py, process_video_analysis,
\* "Step 4: AI Analysis")
\*
\* judging holds the loop's position and index, the context log of the run's
\* compositor, the context additions put into the prompts, the scene texts that
\* came back, and the calls made on the log and on the judge, in order.
\* ------------------------------------------------------------------------
MaxJudged == 5

\* the scene text the judge gives for window i, and the texts that stand in for it:
\* an empty one, the default of a response without the field, the analyzer's
\* fallback after a failed call, and whitespace
SceneDescription(i) == [chars |-> <<" ", "scene", ToString(i)>>]
NoSceneContextProvided == [chars |-> <<"No scene context provided">>]
ApiErrorOccurred == [chars |-> <<"API error occurred">>]
ResponseScenes(i) ==
    {SceneDescription(i), [chars |-> <<>>], NoSceneContextProvided, ApiErrorOccurred,
     [chars |-> <<" ">>]}

InitJudging ==
    /\ scenario = "judging"
    /\ StatusIdle
    /\ EnhancerIdle
    /\ MergeIdle
    /\ ContextIdle
    /\ ThreadsIdle
    /\ \E total_sequences \in 1..MaxJudged :
          judging = [pc |-> "built", total_sequences |-> total_sequences, i |-> 0,
                     context_history |-> <<>>, prompts |-> <<>>, responses |-> <<>>,
                     events |-> <<>>, results |-> <<>>]
    /\ GrouperIdle
    /\ analysis_windows = <<>>
    /\ VideoIdle
    /\ SamplerIdle
    /\ RunIdle

\* where the loop goes after the body of iteration i ended or raised
NextIteration(i, total_sequences) ==
    IF i + 1 < total_sequences THEN "composite" ELSE "finished"

\* compositor.clear_context_history()
LoopClearContextHistory ==
    /\ scenario = "judging"
    /\ judging.pc = "built"
    /\ judging' = [judging EXCEPT !.pc = "composite", !.context_history = <<>>,
                                  !.events = Append(@, [op |-> "clear"])]
    /\ UNCHANGED <<scenario, enhancer_vars, merge_vars, context_vars, thread_vars, status_poll, pipeline_vars>>

\* composite_path = compositor.create_composite(sequence)
LoopCreateComposite ==
    /\ scenario = "judging"
    /\ judging.pc = "composite"
    /\ judging' = [judging EXCEPT !.pc = "prompt"]
    /\ UNCHANGED <<scenario, enhancer_vars, merge_vars, context_vars, thread_vars, status_poll, pipeline_vars>>

\* create_composite raises: "except Exception: continue"
LoopCreateCompositeRaises ==
    /\ scenario = "judging"
    /\ judging.pc = "composite"
    /\ judging' = [judging EXCEPT !.pc = NextIteration(judging.i, judging.total_sequences),
                                  !.i = @ + 1]
    /\ UNCHANGED <<scenario, enhancer_vars, merge_vars, context_vars, thread_vars, status_poll, pipeline_vars>>

\* prompt = compositor.create_analysis_prompt(sequence)
LoopCreateAnalysisPrompt ==
    /\ scenario = "judging"
    /\ judging.pc = "prompt"
    /\ judging' = [judging EXCEPT
            !.pc = "judge",
            !.prompts = Append(@, [window |-> judging.i + 1,
                                   context_addition |-> GetContextPromptAddition(judging.context_history)]),
            !.events = Append(@, [op |-> "read", window |-> judging.i + 1])]
    /\ UNCHANGED <<scenario, enhancer_vars, merge_vars, context_vars, thread_vars, status_poll, pipeline_vars>>

\* api_response = analyzer.analyze_composite_image(composite_path, prompt)
LoopAnalyzeCompositeImage ==
    /\ scenario = "judging"
    /\ judging.pc = "judge"
    /\ \E scene_context \in ResponseScenes(judging.i + 1) :
          judging' = [judging EXCEPT
                !.pc = "process",
                !.responses = Append(@, [window |-> judging.i + 1, scene_context |-> scene_context]),
                !.events = Append(@, [op |-> "judge", window |-> judging.i + 1])]
    /\ UNCHANGED <<scenario, enhancer_vars, merge_vars, context_vars, thread_vars, status_poll, pipeline_vars>>

\* api_response = compositor.process_analysis_response(api_response, sequence)
LoopProcessAnalysisResponse ==
    /\ scenario = "judging"
    /\ judging.pc = "process"
    /\ LET scene_context == judging.responses[Len(judging.responses)].scene_context
       IN IF scene_context.chars # <<>> /\ scene_context # NoSceneContextProvided
          THEN judging' = [judging EXCEPT
                    !.pc = "result",
                    !.context_history = AddSceneContext(@, scene_context, RangeOfCall(judging.i)),
                    !.events = Append(@, [op |-> "append", window |-> judging.i + 1])]
          ELSE judging' = [judging EXCEPT !.pc = "result"]
    /\ UNCHANGED <<scenario, enhancer_vars, merge_vars, context_vars, thread_vars, status_poll, pipeline_vars>>

\* variant: the log is cleared again after every window
LoopAddAnalysisResultClearing ==
    /\ scenario = "judging"
    /\ judging.pc = "result"
    /\ judging' = [judging EXCEPT !.pc = NextIteration(judging.i, judging.total_sequences),
                                  !.i = @ + 1,
                                  !.results = Append(@, judging.i + 1),
                                  !.context_history = <<>>,
                                  !.events = Append(@, [op |-> "clear"])]
    /\ UNCHANGED <<scenario, enhancer_vars, merge_vars, context_vars, thread_vars, status_poll, pipeline_vars>>

\* formatter.add_analysis_result(sequence, api_response, composite_path)
LoopAddAnalysisResult ==
    /\ scenario = "judging"
    /\ judging.pc = "result"
    /\ judging' = [judging EXCEPT !.pc = NextIteration(judging.i, judging.total_sequences),
                                  !.i = @ + 1,
                                  !.results = Append(@, judging.i + 1)]
    /\ UNCHANGED <<scenario, enhancer_vars, merge_vars, context_vars, thread_vars, status_poll, pipeline_vars>>

NextJudging ==
    \/ LoopClearContextHistory
    \/ LoopCreateComposite
    \/ LoopCreateCompositeRaises
    \/ LoopCreateAnalysisPrompt
    \/ LoopAnalyzeCompositeImage
    \/ LoopProcessAnalysisResponse
    \/ LoopAddAnalysisResult

SpecJudging == InitJudging /\ [][NextJudging]_vars

\* ------------------------------------------------------------------------
\* Properties of the Window Builder
\* ------------------------------------------------------------------------
W == ANALYSIS_WINDOW_SECONDS * TicksPerSecond
Wsplit == HIGH_MOTION_SPLIT_WINDOW_SIZE * TicksPerSecond

\* number of input timestamps in [lo, hi]
EventsWithin(lo, hi) ==
    Cardinality({i \in DOMAIN motion_timestamps :
                    motion_timestamps[i] >= lo /\ motion_timestamps[i] <= hi})

\* indices of the candidate windows [k*W, (k+1)*W] that fit in the video
CandidateIndices == {k \in 0..(video_duration \div W) : (k + 1) * W <= video_duration}

\* the part of the output that starts inside candidate window k
OutputOf(k) ==
    SelectSeq(analysis_windows,
              LAMBDA w : k * W <= w.start_time /\ w.start_time < (k + 1) * W)

\* density of candidate k reaches min_motion_density: min(count * 0.1, W) / W >= D_min
DensityReached(count) ==
    (IF count * TicksPerSecond <= 10 * W THEN count * TicksPerSecond ELSE 10 * W) * 1000
        >= min_motion_density * 10 * W
DensityExactlyMin(count) ==
    /\ count * TicksPerSecond <= 10 * W
    /\ count * TicksPerSecond * 1000 = min_motion_density * 10 * W

\* intensity count / W reaches I_high
IntensityReached(count) == count >= HIGH_MOTION_THRESHOLD * ANALYSIS_WINDOW_SECONDS

IsSplit(w) == "is_split_window" \in DOMAIN w /\ w.is_split_window
IsNormal(w) == "is_split_window" \in DOMAIN w /\ ~w.is_split_window

\* C1: in timestamp mode the returned windows are ordered by ascending start_time
\* and pairwise non-overlapping: for positions i < j, end_time(i) <= start_time(j).
C1_OrderedNonOverlapping ==
    gr_pc = "timestamps" =>
        \A i, j \in DOMAIN analysis_windows :
            i < j => /\ analysis_windows[i].start_time <= analysis_windows[j].start_time
                     /\ analysis_windows[i].end_time <= analysis_windows[j].start_time

C1_Witness ==
    /\ gr_pc = "timestamps"
    /\ Len(analysis_windows) >= 3
    /\ \E i, j \in DOMAIN analysis_windows :
            IsNormal(analysis_windows[i]) /\ IsSplit(analysis_windows[j])

\* C2: no emitted window ends after video_duration, in timestamp mode (normal and
\* split windows) and in the segment fallback; every emitted window has its full
\* length (W, or W_split for a sub-window), so no partial final window is built.
C2_EndWithinVideo ==
    gr_pc \in {"timestamps", "segments"} =>
        \A i \in DOMAIN analysis_windows :
            LET w == analysis_windows[i]
            IN /\ w.end_time <= video_duration
               /\ w.end_time - w.start_time = IF IsSplit(w) THEN Wsplit ELSE W

C2_Witness ==
    /\ gr_pc \in {"timestamps", "segments"}
    /\ analysis_windows # <<>>
    /\ video_duration % W # 0
    /\ \E i \in DOMAIN motion_timestamps :
            /\ motion_timestamps[i] >= (video_duration \div W) * W
            /\ motion_timestamps[i] <= video_duration

\* C3: a candidate window produces output iff its density min(count*0.1, W)/W is
\* >= D_min; density exactly D_min is admitted, one event fewer is rejected.
C3_AdmittedIffDensity ==
    gr_pc = "timestamps" =>
        \A k \in CandidateIndices :
            (OutputOf(k) # <<>>) <=> DensityReached(EventsWithin(k * W, (k + 1) * W))

C3_Witness ==
    /\ gr_pc = "timestamps"
    /\ \E k, m \in CandidateIndices :
            LET count == EventsWithin(k * W, (k + 1) * W)
            IN /\ DensityExactlyMin(count)
               /\ OutputOf(k) # <<>>
               /\ EventsWithin(m * W, (m + 1) * W) = count - 1
               /\ OutputOf(m) = <<>>

\* C4: an admitted candidate window is split iff count / W >= I_high; an admitted
\* window that is not split is emitted as exactly one window over the candidate's
\* range with is_split_window = false and sampling_fps = F_base.
C4_SplitIffIntensity ==
    gr_pc = "timestamps" =>
        \A k \in CandidateIndices :
            LET count == EventsWithin(k * W, (k + 1) * W)
                out == OutputOf(k)
            IN out # <<>> =>
                /\ (\E i \in DOMAIN out : IsSplit(out[i])) <=> IntensityReached(count)
                /\ ~IntensityReached(count) =>
                        /\ Len(out) = 1
                        /\ out[1].is_split_window = FALSE
                        /\ out[1].sampling_fps = FRAMES_PER_SECOND
                        /\ out[1].start_time = k * W
                        /\ out[1].end_time = (k + 1) * W

C4_Witness ==
    /\ gr_pc = "timestamps"
    /\ \E k, m \in CandidateIndices :
            /\ EventsWithin(k * W, (k + 1) * W) = HIGH_MOTION_THRESHOLD * ANALYSIS_WINDOW_SECONDS
            /\ \E i \in DOMAIN OutputOf(k) : IsSplit(OutputOf(k)[i])
            /\ EventsWithin(m * W, (m + 1) * W)
                    = HIGH_MOTION_THRESHOLD * ANALYSIS_WINDOW_SECONDS - 1
            /\ Len(OutputOf(m)) = 1
            /\ IsNormal(OutputOf(m)[1])

\* C5: a split window [s, s+W] is replaced by exactly floor(W / W_split)
\* sub-windows [s + i*W_split, s + (i+1)*W_split] in ascending i, whatever the
\* motion inside each; each has is_split_window = true, sampling_fps = F_split and
\* a parent_window naming [s, s+W], lies inside the parent, and the sub-window
\* durations sum to at most W.
RECURSIVE SumDurations(_)
SumDurations(ws) ==
    IF ws = <<>> THEN 0
    ELSE (Head(ws).end_time - Head(ws).start_time) + SumDurations(Tail(ws))

C5_SplitSubWindows ==
    gr_pc = "timestamps" =>
        \A k \in CandidateIndices :
            LET count == EventsWithin(k * W, (k + 1) * W)
                out == OutputOf(k)
            IN (DensityReached(count) /\ IntensityReached(count)) =>
                /\ Len(out) = W \div Wsplit
                /\ \A i \in DOMAIN out :
                    /\ out[i].start_time = k * W + (i - 1) * Wsplit
                    /\ out[i].end_time = k * W + i * Wsplit
                    /\ out[i].is_split_window = TRUE
                    /\ out[i].sampling_fps = HIGH_MOTION_SPLIT_FPS
                    /\ out[i].parent_window
                            = <<(k * W * 100) \div TicksPerSecond,
                                ((k + 1) * W * 100) \div TicksPerSecond>>
                    /\ out[i].motion_count
                            = EventsWithin(out[i].start_time, out[i].end_time)
                    /\ k * W <= out[i].start_time
                    /\ out[i].end_time <= (k + 1) * W
                /\ SumDurations(out) <= W

C5_Witness ==
    /\ gr_pc = "timestamps"
    /\ \E i \in DOMAIN analysis_windows :
            /\ IsSplit(analysis_windows[i])
            /\ analysis_windows[i].motion_count = 0

\* C6 as stated: any two normal windows at consecutive output positions satisfy
\* end_time(i) == start_time(i+1).
C6_ConsecutiveNormalAdjacent ==
    gr_pc = "timestamps" =>
        \A i \in DOMAIN analysis_windows :
            (i + 1 \in DOMAIN analysis_windows
                /\ IsNormal(analysis_windows[i]) /\ IsNormal(analysis_windows[i + 1]))
            => analysis_windows[i].end_time = analysis_windows[i + 1].start_time

\* C6 amended: two normal windows at consecutive output positions satisfy
\* end_time(i) <= start_time(i+1); the gap between them is a whole number of
\* candidate windows, each of which was rejected for density; so
\* end_time(i) == start_time(i+1) exactly when no candidate between was rejected.
C6_ConsecutiveNormalGap ==
    gr_pc = "timestamps" =>
        \A i \in DOMAIN analysis_windows :
            (i + 1 \in DOMAIN analysis_windows
                /\ IsNormal(analysis_windows[i]) /\ IsNormal(analysis_windows[i + 1]))
            => LET e == analysis_windows[i].end_time
                   s == analysis_windows[i + 1].start_time
               IN /\ e <= s
                  /\ e % W = 0
                  /\ s % W = 0
                  /\ \A k \in CandidateIndices :
                        (e <= k * W /\ k * W < s)
                            => ~DensityReached(EventsWithin(k * W, (k + 1) * W))
                  /\ (e = s) <=> ~\E k \in CandidateIndices :
                                    /\ e <= k * W /\ k * W < s
                                    /\ OutputOf(k) = <<>>

C6_Witness ==
    /\ gr_pc = "timestamps"
    /\ \E i \in DOMAIN analysis_windows :
            /\ i + 1 \in DOMAIN analysis_windows
            /\ IsNormal(analysis_windows[i]) /\ IsNormal(analysis_windows[i + 1])
            /\ analysis_windows[i].end_time < analysis_windows[i + 1].start_time

\* the emitted windows whose closed range holds the instant t
Holders(t) ==
    {i \in DOMAIN analysis_windows :
        analysis_windows[i].start_time <= t /\ t <= analysis_windows[i].end_time}

RECURSIVE SumCounts(_)
SumCounts(ws) ==
    IF ws = <<>> THEN 0 ELSE Head(ws).motion_count + SumCounts(Tail(ws))

\* C30: the motion_count of an emitted window (normal or sub-window) counts the
\* timestamps t with start_time <= t <= end_time, both ends included, so a
\* timestamp on the boundary shared by two emitted windows is counted in both;
\* every other timestamp is counted in at most one emitted window.
C30_MembershipInclusive ==
    gr_pc = "timestamps" =>
        /\ \A i \in DOMAIN analysis_windows :
                analysis_windows[i].motion_count
                    = EventsWithin(analysis_windows[i].start_time, analysis_windows[i].end_time)
        /\ \A n \in DOMAIN motion_timestamps :
                LET t == motion_timestamps[n]
                IN /\ Cardinality(Holders(t)) <= 2
                   /\ \A i \in Holders(t) : \A j \in Holders(t) :
                        i < j => /\ analysis_windows[i].end_time = t
                                 /\ analysis_windows[j].start_time = t
                                 /\ analysis_windows[i].motion_count >= 1
                                 /\ analysis_windows[j].motion_count >= 1

\* timestamps on the boundary shared by two emitted windows, and on the boundary
\* shared by two sub-windows of a split window: the counts add up to more than
\* the number of timestamps
C30_Witness ==
    /\ gr_pc = "timestamps"
    /\ \E i \in DOMAIN analysis_windows : \E j \in DOMAIN analysis_windows :
            /\ i < j
            /\ IsSplit(analysis_windows[i]) /\ IsSplit(analysis_windows[j])
            /\ analysis_windows[i].end_time = analysis_windows[j].start_time
            /\ EventsWithin(analysis_windows[i].end_time, analysis_windows[i].end_time) > 0
    /\ \E i \in DOMAIN analysis_windows : \E j \in DOMAIN analysis_windows :
            /\ i < j
            /\ IsNormal(analysis_windows[i]) /\ IsNormal(analysis_windows[j])
            /\ analysis_windows[i].end_time = analysis_windows[j].start_time
            /\ EventsWithin(analysis_windows[i].end_time, analysis_windows[i].end_time) > 0
    /\ SumCounts(analysis_windows) > Len(motion_timestamps)

\* ------------------------------------------------------------------------
\* Properties of the Frame Extractor
\* ------------------------------------------------------------------------
\* the window's own sampling rate, the default when it carries none
RateOf(w) == IF "sampling_fps" \in DOMAIN w THEN w.sampling_fps ELSE FRAMES_PER_SECOND

\* floor(F * D)
TargetOf(w) == (RateOf(w) * (w.end_time - w.start_time)) \div TicksPerSecond

\* end_time <= video_duration, video_duration = total_frames / video_fps
WithinVideo(w) == w.end_time * video_fps <= total_frames * TicksPerSecond

AcceptedUpTo(n) == Cardinality({m \in 1..n : fs_trace[m].class = "accepted"})

ClassCount(c) == Cardinality({m \in DOMAIN fs_trace : fs_trace[m].class = c})

\* C8: for a window with end_time <= video_duration the sampler requests exactly
\* floor(F * D) timestamps start_time + i/F, i = 0 .. floor(F*D)-1, each <= end_time,
\* and the loop takes neither early exit.
C8_RequestedTimestamps ==
    \A n \in DOMAIN fs_trace :
        LET e == fs_trace[n]
            w == analysis_windows[e.window]
        IN WithinVideo(w) =>
            /\ Len(e.requested) = TargetOf(w)
            /\ \A j \in DOMAIN e.requested :
                /\ e.requested[j][1] * RateOf(w)
                        = w.start_time * RateOf(w) + (j - 1) * TicksPerSecond
                /\ e.requested[j][1] <= w.end_time
            /\ e.exit = "exhausted"

C8_Witness ==
    \E n \in DOMAIN fs_trace :
        LET e == fs_trace[n]
            w == analysis_windows[e.window]
        IN /\ w.end_time * video_fps = total_frames * TicksPerSecond
           /\ Len(e.requested) = 16
           /\ e.exit = "exhausted"

\* C9: a window is accepted iff end_time <= video_duration and the decoded count is
\* >= max(8, floor(0.9 * target)), target = floor(sampling_fps * duration) from the
\* window's own sampling_fps (the default when it has none); a frame whose decode
\* fails is skipped and only lowers the decoded count.
C9_AcceptedIffEnoughFrames ==
    \A n \in DOMAIN fs_trace :
        LET e == fs_trace[n]
            w == analysis_windows[e.window]
            min_required == IF (9 * TargetOf(w)) \div 10 > 8
                            THEN (9 * TargetOf(w)) \div 10 ELSE 8
            readable == {j \in DOMAIN e.requested : e.requested[j][2] \notin unreadable}
        IN /\ (e.class = "accepted") <=> (WithinVideo(w) /\ e.decoded >= min_required)
           /\ e.decoded = Cardinality(readable)
           /\ e.class = "accepted" =>
                LET seq == frame_sequences[AcceptedUpTo(n)]
                IN /\ Len(seq.frames) = e.decoded
                   /\ seq.sampling_fps = RateOf(w)
                   /\ \A k \in DOMAIN seq.frames :
                        /\ seq.frames[k].frame \notin unreadable
                        /\ \E j \in readable :
                                /\ e.requested[j][1] = seq.frames[k].timestamp
                                /\ seq.frames[k].frame_number = j - 1

C9_Witness ==
    \E n \in DOMAIN fs_trace :
        /\ fs_trace[n].class = "accepted"
        /\ IsSplit(analysis_windows[fs_trace[n].window])
        /\ RateOf(analysis_windows[fs_trace[n].window]) = HIGH_MOTION_SPLIT_FPS
        /\ TargetOf(analysis_windows[fs_trace[n].window]) = 16
        /\ fs_trace[n].decoded = 14

\* C10: every window ends in exactly one of the classes accepted, dropped for
\* duration, dropped for frames; the three counts add up to the windows handled
\* (all input windows at the end); a window with end_time > video_duration is in
\* the duration class with no frame decoded; accepted sequences keep the order of
\* their windows.
C10_ThreeClasses ==
    /\ Len(fs_trace) = idx
    /\ windows_processed + windows_skipped_duration + windows_skipped_frames = idx
    /\ fs_pc = "done" => idx = Len(analysis_windows)
    /\ windows_processed = ClassCount("accepted")
    /\ windows_skipped_duration = ClassCount("duration")
    /\ windows_skipped_frames = ClassCount("frames")
    /\ Len(frame_sequences) = windows_processed
    /\ \A n \in DOMAIN fs_trace :
        LET e == fs_trace[n]
            w == analysis_windows[e.window]
        IN /\ e.window = n
           /\ e.class \in {"accepted", "duration", "frames"}
           /\ (e.class = "duration") <=> ~WithinVideo(w)
           /\ ~WithinVideo(w) => (e.requested = <<>> /\ e.decoded = 0)
           /\ e.class = "accepted" =>
                /\ frame_sequences[AcceptedUpTo(n)].start_time = w.start_time
                /\ frame_sequences[AcceptedUpTo(n)].end_time = w.end_time

C10_Witness ==
    /\ fs_pc = "done"
    /\ windows_processed >= 1
    /\ windows_skipped_duration >= 1
    /\ windows_skipped_frames >= 1

\* ------------------------------------------------------------------------
\* Properties of a run without motion
\* ------------------------------------------------------------------------
\* C7: for an empty motion-timestamp list the Window Builder returns an empty
\* list, whatever the duration; and a run whose motion extraction returns zero
\* timestamps never enters status 'error' and ends 'completed' with an empty
\* incident list.
C7_EmptyTimestamps ==
    /\ (gr_pc \in {"timestamps", "segments"} /\ motion_timestamps = <<>>)
            => analysis_windows = <<>>
    /\ (scenario = "run" /\ detection = "returned" /\ motion_timestamps = <<>>)
            => /\ job_status \in {"processing", "completed"}
               /\ IsNone(job_error)
               /\ run_pc = "done" =>
                    /\ job_status = "completed"
                    /\ ~IsNone(job_result)
                    /\ job_result.incidents = <<>>

C7_Witness ==
    /\ scenario = "run"
    /\ run_pc = "done"
    /\ detection = "returned"
    /\ video_opens
    /\ total_frames > 0
    /\ motion_timestamps = <<>>
    /\ job_status = "completed"
    /\ job_result.incidents = <<>>

\* ------------------------------------------------------------------------
\* Properties of the Motion Highlighter
\* ------------------------------------------------------------------------
\* the call on sequence_b has returned in enhancer e
ServedB(e) == en_calls[e] = (IF e = "used" THEN 2 ELSE 1)

\* 0-based indices of sequence_b from lo on that hold a frame
FramesFrom(lo) == {i \in lo..(Len(sequence_b) - 1) : ~IsNone(sequence_b[i + 1])}

\* the size-filtered motion mask of frame i of sequence_b, where there is one:
\* frame 0 has none, and a missing frame has none
HasMask(i) == i >= 1 /\ ~IsNone(sequence_b[i + 1])
MaskOf(i) == IF IsNone(sequence_b[i]) THEN {} ELSE sequence_b[i + 1].motion

Annotated(e, i) ==
    enhanced_frames[e][i + 1].motion_enhanced \/ enhanced_frames[e][i + 1].rectangles # <<>>

\* pixel p lies inside one of the rectangles drawn on frame i
Covered(e, i, p) ==
    \E k \in DOMAIN enhanced_frames[e][i + 1].rectangles :
        LET r == enhanced_frames[e][i + 1].rectangles[k]
        IN r[1] <= p - 1 /\ p <= r[3] /\ r[2] <= 0 /\ 1 <= r[4]

\* C11 as stated: a frame at index i >= 1 is never annotated when the motion of
\* its filtered mask is not also in the filtered mask of frame i-1, or when frame
\* i-1 has no mask; in particular frame 1 is never annotated.
C11_NoRectangleWithoutPriorMask ==
    \A e \in Enhancers :
        (ServedB(e) /\ Len(sequence_b) >= 2) =>
            \A i \in FramesFrom(1) :
                (~HasMask(i - 1) \/ MaskOf(i) \cap MaskOf(i - 1) = {}) => ~Annotated(e, i)

\* C12 as stated: for i >= 2, a region present in the filtered masks of frames
\* i-1 and i makes frame i annotated with a rectangle covering it, whatever the
\* frames before i-1 showed.
C12_PersistentRegionAnnotated ==
    \A e \in Enhancers :
        (ServedB(e) /\ Len(sequence_b) >= 2) =>
            \A i \in FramesFrom(2) :
                (HasMask(i - 1) /\ MaskOf(i) \cap MaskOf(i - 1) # {}) =>
                    /\ enhanced_frames[e][i + 1].motion_enhanced
                    /\ \A p \in MaskOf(i) \cap MaskOf(i - 1) : Covered(e, i, p)

\* C13: the result an enhancer gives for sequence_b after it served sequence_a
\* (flags and rectangles of every frame) is the result a fresh enhancer gives
\* for sequence_b alone.
C13_HistoryStaysInSequence ==
    (ServedB("used") /\ ServedB("fresh")) =>
        /\ Len(enhanced_frames["used"]) = Len(sequence_b)
        /\ enhanced_frames["used"] = enhanced_frames["fresh"]

\* sequence_a ends with motion that sequence_b's first frames repeat, and both
\* enhancers have returned an annotated sequence_b
C13_Witness ==
    /\ scenario = "enhancer"
    /\ ServedB("used") /\ ServedB("fresh")
    /\ Len(sequence_b) >= 3
    /\ ~IsNone(sequence_a[2]) /\ sequence_a[2].motion # {}
    /\ \A i \in 1..(Len(sequence_b) - 1) : HasMask(i) /\ MaskOf(i) = {2}
    /\ motion_history["used"] # <<>>
    /\ enhanced_frames["used"][3].motion_enhanced

\* two boxes of the input overlap with positive area
PositiveOverlap(i, j) ==
    LET a == rectangles_in[i]
        b == rectangles_in[j]
    IN /\ Max(a[1], b[1]) < Min(a[3], b[3])
       /\ Max(a[2], b[2]) < Min(a[4], b[4])

\* the connected component of box i in the overlap graph
RECURSIVE Reachable(_, _)
Reachable(members, rounds) ==
    IF rounds = 0
    THEN members
    ELSE Reachable(members \cup {j \in DOMAIN rectangles_in :
                                    \E i \in members : i # j /\ PositiveOverlap(i, j)},
                   rounds - 1)
ComponentOf(i) == Reachable({i}, Len(rectangles_in))

\* the least member of each component, in ascending order
Leaders == {i \in DOMAIN rectangles_in : \A j \in ComponentOf(i) : i <= j}
Leader(k) == CHOOSE i \in Leaders : Cardinality({j \in Leaders : j < i}) = k - 1

TightBox(members) ==
    <<CHOOSE v \in {rectangles_in[m][1] : m \in members} : \A m \in members : v <= rectangles_in[m][1],
      CHOOSE v \in {rectangles_in[m][2] : m \in members} : \A m \in members : v <= rectangles_in[m][2],
      CHOOSE v \in {rectangles_in[m][3] : m \in members} : \A m \in members : v >= rectangles_in[m][3],
      CHOOSE v \in {rectangles_in[m][4] : m \in members} : \A m \in members : v >= rectangles_in[m][4]>>

\* C14: _merge_overlapping_rectangles returns exactly one box per connected
\* component of the overlap graph (boxes adjacent iff they overlap with positive
\* area; touching along an edge is no overlap), each the tight bounding box of
\* its component's members.
C14_OneBoxPerComponent ==
    merge_pc = "done" =>
        /\ Len(merged_rectangles) = Cardinality(Leaders)
        /\ \A k \in DOMAIN merged_rectangles :
                merged_rectangles[k] = TightBox(ComponentOf(Leader(k)))

\* a chain A-B-C whose ends do not overlap, with an edge-touching pair, merged
\* into a single box
C14_Witness ==
    /\ merge_pc = "done"
    /\ Len(rectangles_in) = 3
    /\ PositiveOverlap(1, 2) /\ PositiveOverlap(2, 3) /\ ~PositiveOverlap(1, 3)
    /\ rectangles_in[1][3] = rectangles_in[3][1]
    /\ Len(merged_rectangles) = 1
    /\ merged_rectangles[1] \notin {rectangles_in[k] : k \in 1..3}

\* two boxes overlap with positive area
BoxesOverlap(a, b) ==
    /\ a[1] < b[3] /\ b[1] < a[3]
    /\ a[2] < b[4] /\ b[2] < a[4]

BoxSet(boxes) == {boxes[k] : k \in DOMAIN boxes}

\* no two entries of the list overlap
OverlapFree(boxes) ==
    \A k \in DOMAIN boxes : \A l \in DOMAIN boxes : k # l => ~BoxesOverlap(boxes[k], boxes[l])

\* the input list rearranged by a permutation of its indices
Rearranged(perm) == [k \in DOMAIN rectangles_in |-> rectangles_in[perm[k]]]

\* the returned set is the same for every order of the input boxes
OrderFree ==
    \A perm \in Permutations(DOMAIN rectangles_in) :
        BoxSet(MergeOverlappingRectangles(Rearranged(perm))) = BoxSet(merged_rectangles)

\* C29 as stated: no two boxes returned overlap each other, merging the output
\* again returns the same set of boxes, and the returned set does not depend on
\* the order of the input boxes.
C29_MergeIdempotentNoOverlap ==
    merge_pc = "done" =>
        /\ OverlapFree(merged_rectangles)
        /\ BoxSet(MergeOverlappingRectangles(merged_rectangles)) = BoxSet(merged_rectangles)
        /\ OrderFree

\* C29 as amended: the returned set does not depend on the order of the input
\* boxes; two returned boxes overlap only when they bound separate components
\* (no input box of the one overlaps an input box of the other); and merging
\* the output again returns the same set whenever no two returned boxes overlap.
C29_MergeOrderFree ==
    merge_pc = "done" =>
        /\ OrderFree
        /\ \A k \in DOMAIN merged_rectangles : \A l \in DOMAIN merged_rectangles :
                (k # l /\ BoxesOverlap(merged_rectangles[k], merged_rectangles[l])) =>
                    \A i \in ComponentOf(Leader(k)) : \A j \in ComponentOf(Leader(l)) :
                        ~PositiveOverlap(i, j)
        /\ OverlapFree(merged_rectangles) =>
                BoxSet(MergeOverlappingRectangles(merged_rectangles)) = BoxSet(merged_rectangles)

\* an L-shaped pair merged into a box that covers a third box overlapping
\* neither of the pair: two boxes are returned and they overlap
C29_Witness ==
    /\ merge_pc = "done"
    /\ Len(rectangles_in) = 3
    /\ Len(merged_rectangles) = 2
    /\ BoxesOverlap(merged_rectangles[1], merged_rectangles[2])
    /\ \E perm \in Permutations(DOMAIN rectangles_in) :
            MergeOverlappingRectangles(Rearranged(perm)) # merged_rectangles

\* ------------------------------------------------------------------------
\* Properties of the Context Accumulator
\* ------------------------------------------------------------------------
\* a text that is None, empty or made of whitespace only
Blank(text) ==
    IsNone(text) \/ \A k \in DOMAIN text.chars : text.chars[k] \in {" ", "\n"}

\* a text without the whitespace around it
Trimmed(chars) ==
    LET inked == {k \in DOMAIN chars : chars[k] \notin {" ", "\n"}}
        first == CHOOSE k \in inked : \A j \in inked : k <= j
        last == CHOOSE k \in inked : \A j \in inked : k >= j
    IN IF inked = {} THEN <<>> ELSE SubSeq(chars, first, last)

\* the non-blank texts handed over since the last clear, in arrival order
NonBlankAppended == SelectSeq(cm_appended, LAMBDA a : ~Blank(a.scene_context))

\* C15: the log holds at most 3 entries, and they are the last min(3, n)
\* non-blank texts appended since the most recent clear, in arrival order.
C15_LastThreeNonBlank ==
    scenario = "context" =>
        LET n == Len(NonBlankAppended)
            held == Min(3, n)
        IN /\ Len(context_history) <= 3
           /\ Len(context_history) = held
           /\ \A k \in 1..held :
                /\ context_history[k].context = Trimmed(NonBlankAppended[n - held + k].scene_context.chars)
                /\ context_history[k].timestamp_range = NonBlankAppended[n - held + k].timestamp_range

\* a fourth non-blank text has been appended and the oldest one is gone
C15_Witness ==
    /\ scenario = "context"
    /\ Len(NonBlankAppended) = 4
    /\ Len(context_history) = 3
    /\ cm_call.op = "add"
    /\ context_history[1].timestamp_range = NonBlankAppended[2].timestamp_range
    /\ context_history[3].context # NonBlankAppended[1].scene_context.chars

\* C16: add_scene_context with an empty, None or whitespace-only text leaves the
\* log unchanged, in every state of the log.
C16_BlankAppendNoOp ==
    [][(cm_call'.op = "add" /\ cm_calls' = cm_calls + 1 /\ Blank(cm_call'.scene_context))
            => context_history' = context_history]_vars

\* a whitespace-only text was handed to a full log, which still holds 3 entries
C16_Witness ==
    /\ scenario = "context"
    /\ cm_call.op = "add"
    /\ ~IsNone(cm_call.scene_context) /\ cm_call.scene_context.chars = <<"\n", " ">>
    /\ Len(context_history) = 3
    /\ context_history[3].timestamp_range.start < cm_call.timestamp_range.start

\* C17: clear_context empties the log in every state; get_context_prompt_addition
\* returns the empty string iff the log holds no entry, and otherwise lists every
\* held entry in arrival order with its time range.
C17_ClearAndPrompt ==
    /\ (scenario = "context" /\ cm_call.op = "clear") => context_history = <<>>
    /\ (scenario = "context" /\ cm_call.op = "get") =>
            /\ cm_prompt = <<>> <=> context_history = <<>>
            /\ context_history # <<>> =>
                /\ Len(cm_prompt) = Len(context_history) + 2
                /\ \A k \in DOMAIN context_history :
                      /\ cm_prompt[k + 1].context = context_history[k].context
                      /\ cm_prompt[k + 1].start * TicksPerSecond
                            = 10 * context_history[k].timestamp_range.start
                      /\ cm_prompt[k + 1].end * TicksPerSecond
                            = 10 * context_history[k].timestamp_range.end

\* the prompt addition was asked of a log holding three entries
C17_Witness ==
    /\ scenario = "context"
    /\ cm_call.op = "get"
    /\ Len(context_history) = 3
    /\ Len(cm_prompt) = 5

\* C28 as stated: the sequence_number values of the entries held in the log are
\* strictly increasing in arrival order, hence pairwise distinct, also after
\* evictions.
C28_SequenceNumbersIncrease ==
    scenario = "context" =>
        \A k \in DOMAIN context_history : \A l \in DOMAIN context_history :
            k < l => context_history[k].sequence_number < context_history[l].sequence_number

\* ------------------------------------------------------------------------
\* Properties of concurrent runs
\* ------------------------------------------------------------------------
\* C18 as stated: concurrent runs share no mutable state; the image a run sends
\* to the judge for a window is the one that run rendered for that window, and
\* its context log and published images come from its own renderings only.
C18_RunsShareNothing ==
    scenario = "threads" =>
        \A j \in JobIds :
            /\ \A k \in DOMAIN threads[j].sent :
                    threads[j].sent[k].image = [job |-> j, window |-> threads[j].sent[k].window]
            /\ \A k \in DOMAIN threads[j].context_history :
                    threads[j].context_history[k].scene_of.job = j
            /\ \A k \in DOMAIN threads[j].web_images :
                    threads[j].web_images[k].image = [job |-> j, window |-> threads[j].web_images[k].window]

\* ------------------------------------------------------------------------
\* Properties of the run's error handling
\* ------------------------------------------------------------------------
\* the sequences whose loop iteration met a failure (an exception in the loop
\* body, or a failed call to the judge)
FailedSequences == {m \in DOMAIN seq_outcomes : seq_outcomes[m] # "ok"}

HasResult(m) ==
    \E k \in DOMAIN incidents : incidents[k].start_seconds = frame_sequences[m].start_time

\* C19 as stated: a failure while one window is processed (composition,
\* enhancement, judgement, response handling) is local: the windows after it are
\* still processed in order, the failed window contributes no result, and the run
\* ends 'completed', not 'error'.
C19_WindowFailureIsLocal ==
    scenario = "run" =>
        /\ Len(seq_outcomes) = seq_i
        /\ \A m \in FailedSequences : ~HasResult(m)
        /\ \A k \in DOMAIN incidents : \A l \in DOMAIN incidents :
                k < l => incidents[k].start_seconds < incidents[l].start_seconds
        /\ (FailedSequences # {} /\ run_pc = "except") => exc = "copy2"
        /\ (FailedSequences # {} /\ run_pc = "done" /\ exc = "none") =>
                /\ job_status = "completed"
                /\ seq_i = Len(frame_sequences)

\* C20 as stated: when the source video cannot be opened, the motion detector
\* fails with an error and the run ends in the error state, not as a 'no motion'
\* completion.
C20_UnopenableVideoIsFatal ==
    (scenario = "run" /\ ~video_opens) =>
        /\ detection # "returned"
        /\ job_status # "completed"
        /\ run_pc = "done" => job_status = "error"

\* C21: in the sequence handed back, a frame at index i >= 1 is flagged
\* motion_enhanced exactly when at least one rectangle was drawn on it; the
\* sequence has the length of the input, a missing frame stays missing, and
\* frame 0 comes back as it went in.
C21_FlagIffRectangle ==
    \A e \in Enhancers :
        ServedB(e) =>
            /\ Len(enhanced_frames[e]) = Len(sequence_b)
            /\ \A k \in DOMAIN sequence_b : IsNone(enhanced_frames[e][k]) <=> IsNone(sequence_b[k])
            /\ \A i \in FramesFrom(1) :
                    /\ enhanced_frames[e][i + 1].motion_enhanced
                            <=> enhanced_frames[e][i + 1].rectangles # <<>>
                    /\ enhanced_frames[e][i + 1].timestamp = sequence_b[i + 1].timestamp
            /\ \A i \in FramesFrom(0) :
                    i = 0 => /\ ~enhanced_frames[e][1].motion_enhanced
                             /\ enhanced_frames[e][1].rectangles = <<>>
                             /\ enhanced_frames[e][1].timestamp = sequence_b[1].timestamp

\* the fresh enhancer has returned a sequence in which frame 2 is flagged and
\* carries one rectangle, and frame 3, whose motion is elsewhere, is left unflagged
C21_Witness ==
    /\ scenario = "enhancer"
    /\ ServedB("fresh")
    /\ Len(sequence_b) = 4
    /\ \A i \in 1..3 : HasMask(i)
    /\ MaskOf(1) = {1} /\ MaskOf(2) = {1, 2} /\ MaskOf(3) = {3}
    /\ enhanced_frames["fresh"][3].motion_enhanced
    /\ enhanced_frames["fresh"][3].rectangles = <<<<0, 0, 2, 1>>>>
    /\ ~enhanced_frames["fresh"][4].motion_enhanced

\* twice the distance, in source frames scaled by TicksPerSecond, between frame
\* index n and the instant t
TwiceOffset(t, n) ==
    IF n * TicksPerSecond >= t * video_fps
    THEN 2 * (n * TicksPerSecond - t * video_fps)
    ELSE 2 * (t * video_fps - n * TicksPerSecond)

\* C22 as stated: for every requested timestamp t the frame decoded is the source
\* frame nearest to t * source_fps (its index is round(t * source_fps)), and the
\* index is below the video's total frame count.
C22_NearestSourceFrame ==
    \A n \in DOMAIN fs_trace :
        \A j \in DOMAIN fs_trace[n].requested :
            LET t == fs_trace[n].requested[j][1]
                frame_number == fs_trace[n].requested[j][2]
            IN /\ TwiceOffset(t, frame_number) <= TicksPerSecond
               /\ frame_number < total_frames
               /\ frame_number >= 0

\* ------------------------------------------------------------------------
\* Properties of the segment grouping
\* ------------------------------------------------------------------------
Instants == {motion_timestamps[k] : k \in DOMAIN motion_timestamps}

\* a and b are neighbours in the sorted list of instants
Neighbours(a, b) == a < b /\ ~\E c \in Instants : a < c /\ c < b

SegmentOf(t) == {k \in DOMAIN motion_segments : motion_segments[k][1] <= t /\ t <= motion_segments[k][2]}

\* C23 as stated: the segments are ordered and disjoint, begin and end at motion
\* instants and cover every instant, and two neighbouring instants share a
\* segment exactly when their gap is strictly below the gap threshold (a gap
\* equal to the threshold starts a new segment).
C23_SegmentsAreMaximalRuns ==
    gr_pc \in {"timestamps", "segments"} =>
        /\ \A k \in DOMAIN motion_segments :
                /\ motion_segments[k][1] \in Instants
                /\ motion_segments[k][2] \in Instants
                /\ motion_segments[k][1] <= motion_segments[k][2]
                /\ (k + 1 \in DOMAIN motion_segments)
                        => motion_segments[k][2] < motion_segments[k + 1][1]
        /\ \A t \in Instants : Cardinality(SegmentOf(t)) = 1
        /\ \A a \in Instants : \A b \in Instants :
                Neighbours(a, b) => ((SegmentOf(a) = SegmentOf(b)) <=> (b - a < MOTION_GAP_THRESHOLD))

\* ------------------------------------------------------------------------
\* Properties of the analysis loop
\* ------------------------------------------------------------------------
\* a scene text that process_analysis_response and add_scene_context let through
Kept(text) == ~Blank(text) /\ text.chars # <<"No scene context provided">>

\* the answers given for windows before window n whose scene text was kept
KeptBefore(n) == SelectSeq(judging.responses, LAMBDA r : r.window < n /\ Kept(r.scene_context))

\* the entry lines of a context addition
EntryLines(context_addition) ==
    SelectSeq(context_addition, LAMBDA l : "context" \in DOMAIN l)

\* C24: the log is cleared once, before anything else; windows are judged one at
\* a time in window order; the log is read for a window right before that
\* window's judgement and appended to only right after it; and the prompt of a
\* window lists exactly the last (at most 3) scene texts kept from windows judged
\* earlier in the run.
C24_ContextReadBeforeJudgeAppendAfter ==
    scenario = "judging" =>
        LET ev == judging.events
        IN /\ judging.pc # "built" => (ev # <<>> /\ ev[1].op = "clear")
           /\ \A p \in DOMAIN ev : ev[p].op = "clear" => p = 1
           /\ \A p \in DOMAIN ev : \A q \in DOMAIN ev :
                    (p < q /\ ev[p].op = "judge" /\ ev[q].op = "judge") => ev[p].window < ev[q].window
           /\ \A p \in DOMAIN ev :
                    ev[p].op = "judge" => (p > 1 /\ ev[p - 1] = [op |-> "read", window |-> ev[p].window])
           /\ \A p \in DOMAIN ev :
                    ev[p].op = "append" => (p > 1 /\ ev[p - 1] = [op |-> "judge", window |-> ev[p].window])
           /\ \A k \in DOMAIN judging.prompts :
                    LET n == judging.prompts[k].window
                        lines == EntryLines(judging.prompts[k].context_addition)
                        kept == KeptBefore(n)
                        held == Min(3, Len(kept))
                    IN /\ Len(lines) = held
                       /\ \A j \in 1..held :
                            /\ lines[j].context = Trimmed(kept[Len(kept) - held + j].scene_context.chars)
                            /\ lines[j].start * TicksPerSecond
                                    = 10 * (kept[Len(kept) - held + j].window - 1) * window_ticks

\* five windows were judged, each answer carried a scene description, and the
\* prompt of the fifth listed the scenes of windows 2, 3 and 4
C24_Witness ==
    /\ scenario = "judging"
    /\ judging.pc = "finished"
    /\ Len(judging.responses) = 5
    /\ \A m \in 1..5 : judging.responses[m].scene_context.chars = <<" ", "scene", ToString(m)>>
    /\ Len(judging.prompts) = 5
    /\ Len(EntryLines(judging.prompts[5].context_addition)) = 3
    /\ EntryLines(judging.prompts[5].context_addition)[1].context = <<"scene", "2">>
    /\ Len(judging.events) = 16

\* frame i of the sequence handed back carries a flag or a rectangle
AnnotatedAt(e, i) ==
    /\ ~IsNone(enhanced_frames[e][i + 1])
    /\ \/ enhanced_frames[e][i + 1].motion_enhanced
       \/ enhanced_frames[e][i + 1].rectangles # <<>>

\* the pixels the enhancer kept for frame i
PersistedAt(e, i) ==
    IF IsNone(motion_history[e][i + 1]) THEN {} ELSE motion_history[e][i + 1].mask

\* C25: within one sequence, once a frame at index >= 1 is left un-annotated
\* every later frame is left un-annotated too, whatever its masks hold, and from
\* index 1 on the set of persisted pixels never grows from a frame to the next.
C25_NonAnnotationAbsorbing ==
    \A e \in Enhancers :
        (ServedB(e) /\ Len(sequence_b) >= 2) =>
            /\ Len(motion_history[e]) = Len(sequence_b)
            /\ \A i \in 1..(Len(sequence_b) - 1) : \A j \in 1..(Len(sequence_b) - 1) :
                    (i < j /\ ~AnnotatedAt(e, i)) => ~AnnotatedAt(e, j)
            /\ \A i \in 1..(Len(sequence_b) - 2) : PersistedAt(e, i + 1) \subseteq PersistedAt(e, i)
            /\ \A i \in 1..(Len(sequence_b) - 1) : AnnotatedAt(e, i) <=> PersistedAt(e, i) # {}

\* frame 1 showed no motion, frames 2 and 3 show the same moving region, and the
\* fresh enhancer handed all of them back un-annotated
C25_Witness ==
    /\ scenario = "enhancer"
    /\ ServedB("fresh")
    /\ Len(sequence_b) = 4
    /\ \A i \in 1..3 : HasMask(i)
    /\ MaskOf(1) = {} /\ MaskOf(2) = {1, 2} /\ MaskOf(3) = {1, 2}
    /\ \A i \in 1..3 : ~AnnotatedAt("fresh", i)

\* ------------------------------------------------------------------------
\* Properties of the job record
\* ------------------------------------------------------------------------
\* C26 as stated: a status response that reports the job as 'completed' carries
\* the job's result, under any interleaving of the run and the request.
C26_CompletedCarriesResult ==
    (scenario = "run" /\ status_poll.pc = "sent" /\ status_poll.status = "completed")
        => ~IsNone(status_poll.result)

StatusMoves ==
    {<<"pending", "processing">>, <<"processing", "completed">>, <<"processing", "error">>}

\* one step of the job record
StatusStep ==
    /\ (job_status' # job_status) => <<job_status, job_status'>> \in StatusMoves
    /\ job_progress' >= job_progress

\* the values the job record holds
StatusRange ==
    /\ job_status \in {"pending", "processing", "completed", "error"}
    /\ job_progress \in 0..100
    /\ job_status = "pending" => job_progress = 0
    /\ run_pc = "done" => job_status \in {"completed", "error"}

\* C27: the job's status changes only along pending -> processing -> completed
\* or pending -> processing -> error, nothing follows 'completed' or 'error',
\* and the progress reported never decreases and stays within 0..100.
C27_StatusLifecycle ==
    /\ [](scenario = "run" => StatusRange)
    /\ [][scenario = "run" => StatusStep]_vars

\* a run of several sequences has ended 'completed' at progress 100
C27_Witness ==
    /\ scenario = "run"
    /\ run_pc = "done"
    /\ job_status = "completed"
    /\ job_progress = 100
    /\ seq_i >= 2

====
